---- MODULE Spec2Model ----
(***************************************************************************)
(* Model of the php-toolchain cleanup pipeline: the file primitives        *)
(* (FileOps.delete / move / rollback) and the plan executor                *)
(* (SafeExecutor.execute / _dispatch), the planner                         *)
(* (ActionPlanner.build_plan) and the resolver (ConflictResolver.resolve), *)
(* for the variants under src/claude, src/codex and src/gemini.            *)
(*                                                                         *)
(* The disk is a map from path names to inodes and a map from inodes to    *)
(* contents, so that a hard link (os.link) and a copy (shutil.copy2) are   *)
(* different things: two names of one inode change together when one of    *)
(* them is overwritten in place.  Directories are implicit: every          *)
(* mkdir(parents=True, exist_ok=True) succeeds and the removal of an empty *)
(* parent directory does not change the set of files.                      *)
(***************************************************************************)
EXTENDS Integers, Sequences, FiniteSets, TLC

VARIABLES
    impl,      \* which variant of the code runs: "claude", "codex", "gemini"
    linkOK,    \* TRUE iff os.link works between project and backup (same device)
    fs,        \* the disk: [names: location -> inode or 0, data: Seq(content)]
    log,       \* the action log being built (list of dicts)
    pre,       \* history: for each log entry, what its source held before it ran
    cur,       \* the operation in flight: [stage, act, pre]
    phase,     \* position of the driver: "ops", "exec", "done", "rolledback", ...
    restored,  \* value returned by FileOps.rollback (-1 before it ran)
    calls,     \* number of FileOps calls made by the driver
    plan,      \* SafeExecutor: the plan's actions
    dryRun,    \* SafeExecutor: the dry_run flag
    confirm,   \* SafeExecutor: "none" (confirm_fn is None) or "fn"
    todo,      \* SafeExecutor: indices of the plan still to process, in order
    mediumAns, \* SafeExecutor: the MEDIUM batch gate: "unasked","pending","yes","no"
    highAns,   \* SafeExecutor: the HIGH gate of the action at hand: "unasked","pending","yes"
    asked,     \* history: the calls made to confirm_fn, [kind, idx, answer]
    bkdir,     \* SafeExecutor: TRUE iff the backup directory was created
    disk0,     \* history: the disk before the first operation
    given,     \* planning: the actions handed to build_plan or to resolve
    made,      \* planning: the actions of the plan returned
    saved,     \* commands: action_log.json of the run's backup directory
    ceiling,   \* commands: the --risk-level of analyze
    runs       \* two executor runs: the clock, the backup directories, each run

vars == <<impl, linkOK, fs, log, pre, cur, phase, restored, calls,
          plan, dryRun, confirm, todo, mediumAns, highAns, asked, bkdir, disk0,
          given, made, saved, ceiling, runs>>

execVars == <<plan, dryRun, confirm, todo, mediumAns, highAns, asked, bkdir,
              given, made, saved, ceiling, runs>>

(***************************************************************************)
(* Bounds                                                                  *)
(***************************************************************************)
MaxOps == 3     \* FileOps calls made before rollback
MaxPlan == 2    \* actions in a plan handed to SafeExecutor
MaxIn == 3      \* actions the producers hand to ActionPlanner
MaxGiven == 3   \* actions in a plan handed to ConflictResolver
MaxLog == 2     \* entries of an action log handed to rollback
MaxSecond == 2  \* seconds the clock of two executor runs passes through

(***************************************************************************)
(* Paths                                                                   *)
(***************************************************************************)
None == "None"

\* relative paths that resolve under the project root
InPaths == {"a", "b"}
\* a relative path that resolves outside the project root ("../../etc/passwd")
OutPaths == {"../x"}
RelPaths == InPaths \cup OutPaths

\* A location on disk: <<"proj", p>> is project_dir / p, <<"bk", p>> is
\* backup_dir / p.  With p = "../x" the first is a file outside the project
\* root and the second a file outside the backup directory.
Locs == {"proj", "bk"} \X (RelPaths \cup {".gitignore"})

Proj(p) == <<"proj", p>>

\* the value of a path-valued key that is not set
NoLoc == <<"none", None>>

\* (project_dir / relative).resolve() with the is_relative_to test:
\* the resolved location, and whether it is a descendant of the root.
\* mutant: the is_relative_to test is left out
safe_resolve_unchecked(relative) == [ok |-> TRUE, path |-> Proj(relative)]

safe_resolve(relative) ==
    [ok |-> relative \in InPaths, path |-> Proj(relative)]

\* backup_dir / source
backup_path_for(source) == <<"bk", source>>

\* backup.relative_to(backup_dir): lexical, so "bk/../x" gives "../x"
relative_to_backup_dir(backup) == backup[2]

(***************************************************************************)
(* The disk                                                                *)
(***************************************************************************)
Content0(p) == "v_" \o p

Exists(d, loc) == d.names[loc] # 0

Read(d, loc) == IF Exists(d, loc) THEN d.data[d.names[loc]] ELSE None

\* os.link(src, dst): EEXIST when dst exists, EXDEV across devices.
CanLink(d, src, dst) == linkOK /\ Exists(d, src) /\ ~Exists(d, dst)

Link(d, src, dst) == [d EXCEPT !.names[dst] = d.names[src]]

\* shutil.copy2(src, dst): SameFileError when both are one inode; an existing
\* dst is opened for writing and overwritten in place (its inode is kept).
CanCopy(d, src, dst) ==
    Exists(d, src) /\ d.names[src] # d.names[dst]

Copy2(d, src, dst) ==
    IF Exists(d, dst)
    THEN [d EXCEPT !.data[d.names[dst]] = d.data[d.names[src]]]
    ELSE [names |-> [d.names EXCEPT ![dst] = Len(d.data) + 1],
          data  |-> Append(d.data, d.data[d.names[src]])]

\* open(path, "a") and write: the file is created when absent, and an existing
\* one grows in place (its inode is kept).
AppendLine(d, loc, line) ==
    IF Exists(d, loc)
    THEN [d EXCEPT !.data[d.names[loc]] = d.data[d.names[loc]] \o "+" \o line]
    ELSE [names |-> [d.names EXCEPT ![loc] = Len(d.data) + 1],
          data  |-> Append(d.data, "+" \o line)]

\* line in {l.strip() for l in read_text().splitlines()}
HasLine(d, loc, line) ==
    /\ Exists(d, loc)
    /\ Read(d, loc) \in {"+" \o line, Content0(loc[2]) \o "+" \o line}

\* Path.unlink / os.remove
Unlink(d, loc) == [d EXCEPT !.names[loc] = 0]

\* Path.rename / shutil.move on one filesystem: replaces an existing dst.
Rename(d, src, dst) ==
    IF src = dst THEN d
    ELSE [d EXCEPT !.names[dst] = d.names[src], !.names[src] = 0]

(***************************************************************************)
(* Actions and log entries                                                 *)
(***************************************************************************)
Risks == {"LOW", "MEDIUM", "HIGH"}

Action(t, src, dst, risk) ==
    [action_type |-> t, source |-> src, destination |-> dst, risk_level |-> risk]

NoAction == Action(None, None, None, None)

\* One dict of the action log.  A key the code does not set is None.
Entry(a, status, backup, reason, orig, new) ==
    [action |-> a, status |-> status, backup_path |-> backup, error |-> reason,
     original_path |-> orig, new_path |-> new]

Idle == [stage |-> "idle", act |-> NoAction, pre |-> None]

\* What one call of a file primitive has done when it reaches (or fails to
\* reach) the point just before it removes or renames the source:
\* done = TRUE is a return (entry is the result), done = FALSE means the
\* snapshot is written and the mutation is next.
Returned(d, e) == [done |-> TRUE, fs |-> d, entry |-> e]
Snapshotted(d) == [done |-> FALSE, fs |-> d, entry |-> Entry(NoAction, None, NoLoc, None, NoLoc, NoLoc)]

(***************************************************************************)
(* FileOps, src/claude                                                     *)
(***************************************************************************)
\* FileOps._hard_link_or_copy: os.link, and on any OSError shutil.copy2.
\* ok = FALSE is the OSError that copy2 raises.
\* mutant: reports success without writing the backup
hard_link_or_copy_nowrite(d, src, dst) == [ok |-> TRUE, fs |-> d]

hard_link_or_copy_claude(d, src, dst) ==
    IF CanLink(d, src, dst) THEN [ok |-> TRUE, fs |-> Link(d, src, dst)]
    ELSE IF CanCopy(d, src, dst) THEN [ok |-> TRUE, fs |-> Copy2(d, src, dst)]
    ELSE [ok |-> FALSE, fs |-> d]

\* FileOps.delete up to and including the snapshot
delete_snapshot_claude(d, a) ==
    LET r == safe_resolve(a.source)
        backup == backup_path_for(a.source)
        h == hard_link_or_copy_claude(d, r.path, backup)
    IN  IF ~r.ok
        THEN Returned(d, Entry(a, "error", NoLoc, "path traversal blocked", NoLoc, NoLoc))
        ELSE IF ~Exists(d, r.path)
        THEN Returned(d, Entry(a, "skipped", NoLoc, "not found", NoLoc, NoLoc))
        ELSE IF ~h.ok
        THEN Returned(d, Entry(a, "error", NoLoc, "OSError", NoLoc, NoLoc))
        ELSE Snapshotted(h.fs)

\* FileOps.delete from src.unlink() to the return
delete_finish_claude(d, a) ==
    [fs |-> Unlink(d, Proj(a.source)),
     entry |-> Entry(a, "ok", backup_path_for(a.source), None, NoLoc, NoLoc)]

\* mutant: the destination is not looked at before the move
move_snapshot_overwriting(d, a) ==
    LET r == safe_resolve(a.source)
        q == safe_resolve(a.destination)
        h == hard_link_or_copy_claude(d, r.path, backup_path_for(a.source))
    IN  IF ~r.ok \/ a.destination = None \/ ~q.ok
        THEN Returned(d, Entry(a, "error", NoLoc, "path traversal blocked", NoLoc, NoLoc))
        ELSE IF ~Exists(d, r.path)
        THEN Returned(d, Entry(a, "skipped", NoLoc, "not found", NoLoc, NoLoc))
        ELSE IF ~h.ok
        THEN Returned(d, Entry(a, "error", NoLoc, "OSError", NoLoc, NoLoc))
        ELSE Snapshotted(h.fs)

\* FileOps.move up to and including the snapshot
move_snapshot_claude(d, a) ==
    LET r == safe_resolve(a.source)
    IN  IF ~r.ok
        THEN Returned(d, Entry(a, "error", NoLoc, "path traversal blocked", NoLoc, NoLoc))
        ELSE IF a.destination = None
        THEN Returned(d, Entry(a, "error", NoLoc, "no destination specified", NoLoc, NoLoc))
        ELSE
        LET q == safe_resolve(a.destination)
            backup == backup_path_for(a.source)
            h == hard_link_or_copy_claude(d, r.path, backup)
        IN  IF ~q.ok
            THEN Returned(d, Entry(a, "error", NoLoc, "path traversal blocked", NoLoc, NoLoc))
            ELSE IF ~Exists(d, r.path)
            THEN Returned(d, Entry(a, "skipped", NoLoc, "not found", NoLoc, NoLoc))
            ELSE IF Exists(d, q.path) /\ q.path # r.path
            THEN Returned(d, Entry(a, "error", NoLoc, "destination exists", NoLoc, NoLoc))
            ELSE IF ~h.ok
            THEN Returned(d, Entry(a, "error", NoLoc, "OSError", NoLoc, NoLoc))
            ELSE Snapshotted(h.fs)

\* FileOps.move from src.rename(dst) to the return
move_finish_claude(d, a) ==
    [fs |-> Rename(d, Proj(a.source), Proj(a.destination)),
     entry |-> Entry(a, "ok", backup_path_for(a.source), None, NoLoc, NoLoc)]

\* FileOps.rollback: the loop over reversed(action_log), from entry i down.
RECURSIVE rollback_claude_from(_, _, _, _)
rollback_claude_from(d, lg, i, count) ==
    IF i = 0 THEN [fs |-> d, count |-> count, raised |-> FALSE]
    ELSE
    LET entry == lg[i]
        backup == entry.backup_path
        original == Proj(relative_to_backup_dir(backup))
    IN  IF entry.status \notin {"ok", "executed"}
        THEN rollback_claude_from(d, lg, i - 1, count)
        ELSE IF backup = NoLoc
        THEN rollback_claude_from(d, lg, i - 1, count)
        ELSE IF ~Exists(d, backup)
        THEN rollback_claude_from(d, lg, i - 1, count)
        \* backup.relative_to(backup_dir) raises ValueError, which the
        \* "except OSError" does not catch
        ELSE IF backup[1] # "bk"
        THEN [fs |-> d, count |-> count, raised |-> TRUE]
        ELSE IF ~CanCopy(d, backup, original)
        THEN rollback_claude_from(d, lg, i - 1, count)
        ELSE rollback_claude_from(Copy2(d, backup, original), lg, i - 1, count + 1)

\* mutant: rollback that counts the entries and copies nothing back
rollback_nocopy(d, lg) == [fs |-> d, count |-> Len(lg), raised |-> FALSE]

\* mutant: rollback that does not look at the status of an entry
rollback_ignoring_status(d, lg) ==
    rollback_claude_from(d, [k \in 1..Len(lg) |-> [lg[k] EXCEPT !.status = "ok"]],
                         Len(lg), 0)

rollback_claude(d, lg) == rollback_claude_from(d, lg, Len(lg), 0)

(***************************************************************************)
(* FileOps, src/gemini                                                     *)
(***************************************************************************)
\* FileOps._hard_link_or_copy: an existing dst is removed first, then
\* os.link, and on OSError shutil.copy2.
hard_link_or_copy_gemini(d, src, dst) ==
    LET d1 == IF Exists(d, dst) THEN Unlink(d, dst) ELSE d
    IN  IF CanLink(d1, src, dst) THEN [ok |-> TRUE, fs |-> Link(d1, src, dst)]
        ELSE IF CanCopy(d1, src, dst) THEN [ok |-> TRUE, fs |-> Copy2(d1, src, dst)]
        ELSE [ok |-> FALSE, fs |-> d1]

delete_snapshot_gemini(d, a) ==
    LET r == safe_resolve(a.source)
        h == hard_link_or_copy_gemini(d, r.path, backup_path_for(a.source))
    IN  IF ~r.ok
        THEN Returned(d, Entry(a, "error", NoLoc, "path traversal blocked", NoLoc, NoLoc))
        ELSE IF ~Exists(d, r.path)
        THEN Returned(d, Entry(a, "skipped", NoLoc, "not found or is a directory", NoLoc, NoLoc))
        ELSE IF ~h.ok
        THEN Returned(h.fs, Entry(a, "error", NoLoc, "OSError", NoLoc, NoLoc))
        ELSE Snapshotted(h.fs)

delete_finish_gemini(d, a) ==
    [fs |-> Unlink(d, Proj(a.source)),
     entry |-> Entry(a, "ok", backup_path_for(a.source), None, Proj(a.source), NoLoc)]

move_snapshot_gemini(d, a) ==
    IF a.destination = None
    THEN Returned(d, Entry(a, "error", NoLoc, "destination not specified for move action", NoLoc, NoLoc))
    ELSE
    LET r == safe_resolve(a.source)
        q == safe_resolve(a.destination)
        h == hard_link_or_copy_gemini(d, r.path, backup_path_for(a.source))
    IN  IF ~r.ok \/ ~q.ok
        THEN Returned(d, Entry(a, "error", NoLoc, "path traversal blocked", NoLoc, NoLoc))
        ELSE IF ~Exists(d, r.path)
        THEN Returned(d, Entry(a, "skipped", NoLoc, "source not found or is a directory", NoLoc, NoLoc))
        ELSE IF Exists(d, q.path) /\ d.names[q.path] # d.names[r.path]
        THEN Returned(d, Entry(a, "error", NoLoc, "destination exists", NoLoc, NoLoc))
        ELSE IF ~h.ok
        THEN Returned(h.fs, Entry(a, "error", NoLoc, "OSError", NoLoc, NoLoc))
        ELSE Snapshotted(h.fs)

move_finish_gemini(d, a) ==
    [fs |-> Rename(d, Proj(a.source), Proj(a.destination)),
     entry |-> Entry(a, "ok", backup_path_for(a.source), None,
                     Proj(a.source), Proj(a.destination))]

\* FileOps.rollback, first loop: lineage maps a path to the path its content
\* came from, files_to_restore (a dict, in insertion order) keeps for each
\* root the first backup taken of it.
RECURSIVE gemini_restore_plan(_, _, _, _)
gemini_restore_plan(lg, i, lineage, files_to_restore) ==
    IF i > Len(lg) THEN files_to_restore
    ELSE
    LET entry == lg[i]
        src == entry.original_path
        root == IF src \in DOMAIN lineage THEN lineage[src] ELSE src
        known == \E k \in 1..Len(files_to_restore) : files_to_restore[k].root = root
        ftr == IF known THEN files_to_restore
               ELSE Append(files_to_restore, [root |-> root, backup |-> entry.backup_path])
        lin == IF entry.new_path # NoLoc
               THEN [x \in DOMAIN lineage \cup {entry.new_path} |->
                        IF x = entry.new_path THEN root ELSE lineage[x]]
               ELSE lineage
    IN  IF entry.status # "ok"
        THEN gemini_restore_plan(lg, i + 1, lineage, files_to_restore)
        ELSE gemini_restore_plan(lg, i + 1, lin, ftr)

\* second and third loop: every path an ok entry names
gemini_all_paths(lg) ==
    {lg[i].original_path : i \in {k \in 1..Len(lg) : lg[k].status = "ok"}}
    \cup {lg[i].new_path : i \in {k \in 1..Len(lg) :
                                   lg[k].status = "ok" /\ lg[k].new_path # NoLoc}}

\* fourth loop: copy each root's backup back
RECURSIVE gemini_restore(_, _, _)
gemini_restore(d, ftr, i) ==
    IF i > Len(ftr) THEN d
    ELSE IF ~Exists(d, ftr[i].backup) \/ ~CanCopy(d, ftr[i].backup, ftr[i].root)
    THEN gemini_restore(d, ftr, i + 1)
    ELSE gemini_restore(Copy2(d, ftr[i].backup, ftr[i].root), ftr, i + 1)

rollback_gemini(d, lg) ==
    LET ftr == gemini_restore_plan(lg, 1, <<>>, <<>>)
        gone == gemini_all_paths(lg)
        d1 == [d EXCEPT !.names = [l \in Locs |-> IF l \in gone THEN 0 ELSE d.names[l]]]
        \* entry["original_path"], entry["backup_path"] of an ok entry that
        \* lacks the key: KeyError, outside every try
        keyless == \E k \in 1..Len(lg) :
                      /\ lg[k].status = "ok"
                      /\ lg[k].original_path = NoLoc \/ lg[k].backup_path = NoLoc
    IN  IF keyless THEN [fs |-> d, count |-> 0, raised |-> TRUE]
        ELSE [fs |-> gemini_restore(d1, ftr, 1), count |-> Len(ftr), raised |-> FALSE]

(***************************************************************************)
(* FileOps.rollback, src/codex                                             *)
(***************************************************************************)
\* FileOps.rollback of src/codex, from entry i down: only status "ok", the
\* original is the action's source under the project root
RECURSIVE rollback_codex_from(_, _, _, _)
rollback_codex_from(d, lg, i, count) ==
    IF i = 0 THEN [fs |-> d, count |-> count, raised |-> FALSE]
    ELSE
    LET entry == lg[i]
        backup == entry.backup_path
        original == safe_resolve(entry.action.source)
    IN  IF \/ entry.status # "ok"
           \/ backup = NoLoc
           \/ entry.action.source = None
           \/ ~original.ok
           \/ ~Exists(d, backup)
           \/ ~CanCopy(d, backup, original.path)
        THEN rollback_codex_from(d, lg, i - 1, count)
        ELSE rollback_codex_from(Copy2(d, backup, original.path), lg, i - 1, count + 1)

rollback_codex(d, lg) == rollback_codex_from(d, lg, Len(lg), 0)

(***************************************************************************)
(* FileOps called directly: any sequence of delete and move calls on one   *)
(* FileOps instance, each result appended to a log, then rollback(log).    *)
(***************************************************************************)
FileOpsImpls == {"claude", "gemini"}

delete_snapshot(i, d, a) ==
    IF i = "claude" THEN delete_snapshot_claude(d, a) ELSE delete_snapshot_gemini(d, a)

delete_finish(i, d, a) ==
    IF i = "claude" THEN delete_finish_claude(d, a) ELSE delete_finish_gemini(d, a)

move_snapshot(i, d, a) ==
    IF i = "claude" THEN move_snapshot_claude(d, a) ELSE move_snapshot_gemini(d, a)

move_finish(i, d, a) ==
    IF i = "claude" THEN move_finish_claude(d, a) ELSE move_finish_gemini(d, a)

rollback(i, d, lg) ==
    IF i = "claude" THEN rollback_claude(d, lg)
    ELSE IF i = "codex" THEN rollback_codex(d, lg)
    ELSE rollback_gemini(d, lg)

\* The disk before anything ran: a and the file outside the root exist and,
\* when full, so do b and .gitignore, each with its own content; nothing is
\* backed up.
InitDisk(full) ==
    [names |-> [l \in Locs |->
                    IF l = Proj("a") THEN 1
                    ELSE IF l = Proj("b") /\ full THEN 2
                    ELSE IF l = Proj("../x") THEN 3
                    ELSE IF l = Proj(".gitignore") /\ full THEN 4
                    ELSE 0],
     data |-> <<Content0("a"), Content0("b"), Content0("../x"),
                Content0(".gitignore")>>]

\* action_log.json does not exist
NoFile == [exists |-> FALSE, action_log |-> <<>>]

\* no planner and no resolver has run, no command has written its log
PlanningIdle == given = <<>> /\ made = <<>> /\ saved = NoFile /\ ceiling = "HIGH" /\ runs = <<>>

ExecIdle ==
    /\ plan = <<>>
    /\ dryRun = FALSE
    /\ confirm = "none"
    /\ todo = <<>>
    /\ mediumAns = "unasked"
    /\ highAns = "unasked"
    /\ asked = <<>>
    /\ bkdir = FALSE

InitFileOps ==
    /\ impl \in FileOpsImpls
    /\ linkOK \in BOOLEAN
    /\ fs \in {InitDisk(TRUE), InitDisk(FALSE)}
    /\ disk0 = fs
    /\ log = <<>>
    /\ pre = <<>>
    /\ cur = Idle
    /\ phase = "ops"
    /\ restored = -1
    /\ calls = 0
    /\ ExecIdle
    /\ PlanningIdle

\* The call runs up to its snapshot: it either returns there, or stands
\* between the snapshot and the mutation.
Begin(a, r) ==
    /\ fs' = r.fs
    /\ IF r.done
       THEN /\ log' = Append(log, r.entry)
            /\ pre' = Append(pre, Read(fs, Proj(a.source)))
            /\ cur' = Idle
       ELSE /\ cur' = [stage |-> "snapshotted", act |-> a,
                       pre |-> Read(fs, Proj(a.source))]
            /\ UNCHANGED <<log, pre>>

\* ops.delete(action), first part
CallDelete(p) ==
    /\ phase = "ops" /\ cur.stage = "idle" /\ calls < MaxOps
    /\ LET a == Action("DELETE", p, None, "LOW")
       IN  Begin(a, delete_snapshot(impl, fs, a))
    /\ calls' = calls + 1
    /\ UNCHANGED <<impl, linkOK, phase, restored, disk0>>
    /\ UNCHANGED execVars

\* ops.move(action), first part
CallMove(p, q) ==
    /\ phase = "ops" /\ cur.stage = "idle" /\ calls < MaxOps
    /\ LET a == Action("MOVE", p, q, "LOW")
       IN  Begin(a, move_snapshot(impl, fs, a))
    /\ calls' = calls + 1
    /\ UNCHANGED <<impl, linkOK, phase, restored, disk0>>
    /\ UNCHANGED execVars

\* second part of delete or move: the source is removed or renamed and the
\* call returns its result.
FinishCall ==
    /\ phase = "ops" /\ cur.stage = "snapshotted"
    /\ LET f == IF cur.act.action_type = "DELETE"
                THEN delete_finish(impl, fs, cur.act)
                ELSE move_finish(impl, fs, cur.act)
       IN  /\ fs' = f.fs
           /\ log' = Append(log, f.entry)
    /\ pre' = Append(pre, cur.pre)
    /\ cur' = Idle
    /\ UNCHANGED <<impl, linkOK, phase, restored, calls, disk0>>
    /\ UNCHANGED execVars

\* ops.rollback(backup_dir, log)
Rollback ==
    /\ phase = "ops" /\ cur.stage = "idle"
    /\ LET r == rollback(impl, fs, log)
       IN  /\ fs' = r.fs
           /\ restored' = IF r.raised THEN restored ELSE r.count
           /\ phase' = IF r.raised THEN "raised" ELSE "rolledback"
    /\ UNCHANGED <<impl, linkOK, log, pre, cur, calls, disk0>>
    /\ UNCHANGED execVars

NextFileOps ==
    \/ \E p \in RelPaths : CallDelete(p)
    \/ \E p \in RelPaths, q \in RelPaths \cup {None} : CallMove(p, q)
    \/ FinishCall
    \/ Rollback


(***************************************************************************)
(* SafeExecutor._dispatch, src/claude: its own file operations, on         *)
(* project_dir / action.source as given (no resolve, no root test).        *)
(***************************************************************************)
Executed(a, backup) == Entry(a, "executed", backup, None, NoLoc, NoLoc)

\* up to and including os.link(abs_source, rel_backup); an exception of
\* os.link (the backup exists, or another device) is caught: status error.
dispatch_snapshot_claude(d, a) ==
    LET abs_source == Proj(a.source)
        rel_backup == <<"bk", a.source>>
        acts == \/ a.action_type = "DELETE"
                \/ a.action_type = "MOVE" /\ a.destination # None
    IN  IF a.action_type \notin {"DELETE", "MOVE"}
        THEN Returned(d, Executed(a, NoLoc))
        ELSE IF ~(Exists(d, abs_source) /\ acts)
        THEN Returned(d, Executed(a, NoLoc))
        ELSE IF ~CanLink(d, abs_source, rel_backup)
        THEN Returned(d, Entry(a, "error", NoLoc, "OSError", NoLoc, NoLoc))
        ELSE Snapshotted(Link(d, abs_source, rel_backup))

\* abs_source.unlink() or abs_source.rename(dest), and the return
dispatch_finish_claude(d, a) ==
    [fs |-> IF a.action_type = "DELETE"
            THEN Unlink(d, Proj(a.source))
            ELSE Rename(d, Proj(a.source), Proj(a.destination)),
     entry |-> Executed(a, <<"bk", a.source>>)]

(***************************************************************************)
(* SafeExecutor._dispatch, src/codex                                       *)
(***************************************************************************)
\* _backup_file: nothing is written when the backup path exists
backup_file_codex(d, src_path, backup_path) ==
    IF Exists(d, backup_path) THEN d
    ELSE IF CanLink(d, src_path, backup_path) THEN Link(d, src_path, backup_path)
    ELSE Copy2(d, src_path, backup_path)

\* the ADD_GITIGNORE branch: _backup_if_exists, _append_gitignore_entry
add_gitignore_codex(d, a) ==
    LET gi == Proj(".gitignore")
        backup_path == <<"bk", ".gitignore">>
        line == a.source \o "/"
        d1 == IF Exists(d, gi) THEN backup_file_codex(d, gi, backup_path) ELSE d
        d2 == IF HasLine(d1, gi, line) THEN d1 ELSE AppendLine(d1, gi, line)
    IN  Returned(d2, Executed(a, IF Exists(d2, gi) THEN backup_path ELSE NoLoc))

\* an exception inside _dispatch: status "skipped" with the error text
Failed(d, a, e) == Returned(d, Entry(a, "skipped", NoLoc, e, NoLoc, NoLoc))

dispatch_snapshot_codex(d, a) ==
    LET src_path == Proj(a.source)
        backup_path == <<"bk", a.source>>
    IN  IF a.action_type = "REPORT_ONLY" THEN Returned(d, Executed(a, NoLoc))
        ELSE IF a.action_type = "ADD_GITIGNORE" THEN add_gitignore_codex(d, a)
        ELSE IF a.action_type = "MOVE" /\ a.destination = None
        THEN Failed(d, a, "ValueError")
        ELSE IF ~Exists(d, src_path) THEN Failed(d, a, "FileNotFoundError")
        ELSE Snapshotted(backup_file_codex(d, src_path, backup_path))

dispatch_finish_codex(d, a) ==
    [fs |-> IF a.action_type = "DELETE"
            THEN Unlink(d, Proj(a.source))
            ELSE Rename(d, Proj(a.source), Proj(a.destination)),
     entry |-> Executed(a, <<"bk", a.source>>)]

(***************************************************************************)
(* SafeExecutor._dispatch, src/gemini: delegates to FileOps                *)
(***************************************************************************)
dispatch_snapshot_gemini(d, a) ==
    IF a.action_type = "DELETE" THEN delete_snapshot_gemini(d, a)
    ELSE IF a.action_type = "MOVE" THEN move_snapshot_gemini(d, a)
    ELSE Returned(d, Entry(a, "skipped", NoLoc, "Unsupported action type", NoLoc, NoLoc))

dispatch_finish_gemini(d, a) ==
    IF a.action_type = "DELETE" THEN delete_finish_gemini(d, a)
    ELSE move_finish_gemini(d, a)

dispatch_snapshot(i, d, a) ==
    IF i = "claude" THEN dispatch_snapshot_claude(d, a)
    ELSE IF i = "codex" THEN dispatch_snapshot_codex(d, a)
    ELSE dispatch_snapshot_gemini(d, a)

dispatch_finish(i, d, a) ==
    IF i = "claude" THEN dispatch_finish_claude(d, a)
    ELSE IF i = "codex" THEN dispatch_finish_codex(d, a)
    ELSE dispatch_finish_gemini(d, a)

(***************************************************************************)
(* SafeExecutor.execute                                                    *)
(***************************************************************************)
ExecImpls == {"claude", "codex", "gemini"}

\* The actions a plan may hold: a DELETE of each path; the MOVEs onto a free
\* or taken path, onto itself, out of and into the project root and without
\* a destination; the two informational types on a directory "d".
MovePairs ==
    {<<"a", "b">>, <<"b", "a">>, <<"a", "a">>, <<"a", "../x">>, <<"../x", "a">>,
     <<"a", None>>}

PlanActions ==
    {Action("DELETE", p, None, r) : p \in RelPaths, r \in Risks}
    \cup {Action("MOVE", pq[1], pq[2], r) : pq \in MovePairs, r \in Risks}
    \cup {Action(t, "d", None, r) : t \in {"ADD_GITIGNORE", "REPORT_ONLY"}, r \in Risks}

Plans == UNION {[1..n -> PlanActions] : n \in 0..MaxPlan}

\* [a for a in plan.actions if a.risk_level == risk], as indices of the plan
RECURSIVE indices_of(_, _, _)
indices_of(pl, risk, i) ==
    IF i > Len(pl) THEN <<>>
    ELSE (IF pl[i].risk_level = risk THEN <<i>> ELSE <<>>) \o indices_of(pl, risk, i + 1)

\* The order in which execute walks the plan.  src/claude runs the LOW
\* list, then the MEDIUM list, then the HIGH list; src/codex and src/gemini
\* run one loop over plan.actions.
schedule(i, pl) ==
    IF i = "claude"
    THEN indices_of(pl, "LOW", 1) \o indices_of(pl, "MEDIUM", 1) \o indices_of(pl, "HIGH", 1)
    ELSE [k \in 1..Len(pl) |-> k]

\* confirm_fn after construction: src/codex and src/gemini replace None by a
\* default predicate in __init__, src/claude keeps None and then proceeds
\* without a call.
Confirms(i) == IF i = "claude" THEN {"none", "fn"} ELSE {"fn"}

\* TRUE iff the gate calls a predicate at all
Calls(i, c) == c = "fn"

\* the "skipped" entry of a refused action
Refused(i, a) ==
    Entry(a, "skipped", NoLoc,
          IF i = "claude" THEN None
          ELSE IF a.risk_level = "MEDIUM" THEN "medium-risk batch denied"
          ELSE "high-risk action denied",
          NoLoc, NoLoc)

SourceRead(d, a) ==
    IF a.source \in RelPaths THEN Read(d, Proj(a.source)) ELSE None

InitExecOf(impls) ==
    /\ impl \in impls
    /\ linkOK \in BOOLEAN
    /\ fs \in {InitDisk(TRUE), InitDisk(FALSE)}
    /\ disk0 = fs
    /\ log = <<>>
    /\ pre = <<>>
    /\ cur = Idle
    /\ phase = "start"
    /\ restored = -1
    /\ calls = 0
    /\ plan \in Plans
    /\ dryRun \in BOOLEAN
    /\ confirm \in Confirms(impl)
    /\ todo = <<>>
    /\ mediumAns = "unasked"
    /\ highAns = "unasked"
    /\ asked = <<>>
    /\ bkdir = FALSE
    /\ PlanningIdle

fixedVars == <<impl, linkOK, restored, calls, plan, dryRun, confirm, disk0,
               given, made, saved, ceiling, runs>>

\* execute() in dry-run mode: every action is logged, the BackupInfo has an
\* empty action_log and no directory is made.
ExecDryRun ==
    /\ phase = "start" /\ dryRun
    /\ phase' = "done"
    /\ UNCHANGED <<fs, log, pre, cur, todo, mediumAns, highAns, asked, bkdir>>
    /\ UNCHANGED fixedVars

\* mutant: the live branch is taken whatever dry_run says
ExecStart_ignoring_dry_run ==
    /\ phase = "start"
    /\ bkdir' = TRUE
    /\ todo' = schedule(impl, plan)
    /\ phase' = "exec"
    /\ UNCHANGED <<fs, log, pre, cur, mediumAns, highAns, asked>>
    /\ UNCHANGED fixedVars

\* execute() in live mode, up to the first gate or action:
\* _create_backup_dir and the lists the loops run over.
ExecStart ==
    /\ phase = "start" /\ ~dryRun
    /\ bkdir' = TRUE
    /\ todo' = schedule(impl, plan)
    /\ phase' = "exec"
    /\ UNCHANGED <<fs, log, pre, cur, mediumAns, highAns, asked>>
    /\ UNCHANGED fixedVars

\* mutant: LOW actions are put into the MEDIUM batch
gate_of_low_in_batch(a) ==
    IF a.risk_level = "HIGH" THEN "own" ELSE "batch"

\* mutant: a HIGH action is covered by the batch confirmation
gate_of_high_in_batch(a) ==
    IF a.risk_level = "LOW" THEN "none" ELSE "batch"

\* mutant: a MEDIUM action is confirmed on its own, like a HIGH one
gate_of_medium_own(a) ==
    IF a.risk_level = "LOW" THEN "none" ELSE "own"

\* The gate an action has to pass: none for LOW, the one batch confirmation
\* for MEDIUM, a confirmation of its own for HIGH.
gate_of(a) ==
    IF a.risk_level = "LOW" THEN "none"
    ELSE IF a.risk_level = "MEDIUM" THEN "batch"
    ELSE "own"

HasMedium == \E k \in 1..Len(plan) : plan[k].risk_level = "MEDIUM"

\* The MEDIUM batch gate is due: src/claude asks when it reaches the MEDIUM
\* list, src/codex and src/gemini before the loop.
NeedMediumGate ==
    /\ mediumAns = "unasked"
    /\ IF impl = "claude"
       THEN todo # <<>> /\ gate_of(plan[Head(todo)]) = "batch"
       ELSE \E k \in 1..Len(plan) : gate_of(plan[k]) = "batch"

Running == phase = "exec" /\ cur.stage = "idle"

\* the loop is at an action and no confirmation is open
AtAction ==
    /\ Running /\ todo # <<>>
    /\ ~NeedMediumGate
    /\ mediumAns # "pending" /\ highAns # "pending"

\* _gate_medium is entered
GateMediumCall ==
    /\ Running /\ NeedMediumGate
    /\ mediumAns' = IF Calls(impl, confirm) THEN "pending" ELSE "yes"
    /\ UNCHANGED <<fs, log, pre, cur, phase, todo, highAns, asked, bkdir>>
    /\ UNCHANGED fixedVars

\* confirm_fn returns the batch answer
GateMediumReturn(ans) ==
    /\ Running /\ mediumAns = "pending"
    /\ mediumAns' = ans
    /\ asked' = Append(asked, [kind |-> "MEDIUM", idx |-> 0, answer |-> ans])
    /\ UNCHANGED <<fs, log, pre, cur, phase, todo, highAns, bkdir>>
    /\ UNCHANGED fixedVars

\* src/gemini: "if action.action_type == ADD_GITIGNORE: continue"
SkipGitignore ==
    /\ AtAction
    /\ impl = "gemini" /\ plan[Head(todo)].action_type = "ADD_GITIGNORE"
    /\ todo' = Tail(todo)
    /\ UNCHANGED <<fs, log, pre, cur, phase, mediumAns, highAns, asked, bkdir>>
    /\ UNCHANGED fixedVars

Handled(a) == impl = "gemini" /\ a.action_type = "ADD_GITIGNORE"

\* a MEDIUM action of a refused batch
SkipMedium ==
    /\ AtAction
    /\ LET a == plan[Head(todo)]
       IN  /\ ~Handled(a)
           /\ gate_of(a) = "batch" /\ mediumAns = "no"
           /\ log' = Append(log, Refused(impl, a))
           /\ pre' = Append(pre, SourceRead(fs, a))
    /\ todo' = Tail(todo)
    /\ UNCHANGED <<fs, cur, phase, mediumAns, highAns, asked, bkdir>>
    /\ UNCHANGED fixedVars

\* _gate_high is entered for the action at hand
GateHighCall ==
    /\ AtAction
    /\ LET a == plan[Head(todo)]
       IN  /\ ~Handled(a)
           /\ gate_of(a) = "own" /\ highAns = "unasked"
    /\ highAns' = IF Calls(impl, confirm) THEN "pending" ELSE "yes"
    /\ UNCHANGED <<fs, log, pre, cur, phase, todo, mediumAns, asked, bkdir>>
    /\ UNCHANGED fixedVars

\* confirm_fn returns the answer for the action at hand; a refusal appends
\* the skipped entry
GateHighReturn(ans) ==
    /\ Running /\ highAns = "pending"
    /\ asked' = Append(asked, [kind |-> "HIGH", idx |-> Head(todo), answer |-> ans])
    /\ IF ans = "yes"
       THEN /\ highAns' = "yes"
            /\ UNCHANGED <<log, pre, todo>>
       ELSE /\ highAns' = "unasked"
            /\ log' = Append(log, Refused(impl, plan[Head(todo)]))
            /\ pre' = Append(pre, SourceRead(fs, plan[Head(todo)]))
            /\ todo' = Tail(todo)
    /\ UNCHANGED <<fs, cur, phase, mediumAns, bkdir>>
    /\ UNCHANGED fixedVars

\* mutant: the answer of the gate is ignored
Cleared_whatever_answer(a) == TRUE

\* the gate of the action at hand is open
Cleared(a) ==
    \/ gate_of(a) = "none"
    \/ gate_of(a) = "batch" /\ mediumAns = "yes"
    \/ gate_of(a) = "own" /\ highAns = "yes"

\* _dispatch(action), up to its snapshot
DispatchBegin ==
    /\ AtAction
    /\ LET a == plan[Head(todo)]
           r == dispatch_snapshot(impl, fs, a)
       IN  /\ ~Handled(a)
           /\ Cleared(a)
           /\ fs' = r.fs
           /\ IF r.done
              THEN /\ log' = Append(log, r.entry)
                   /\ pre' = Append(pre, SourceRead(fs, a))
                   /\ todo' = Tail(todo)
                   /\ highAns' = "unasked"
                   /\ cur' = Idle
              ELSE /\ cur' = [stage |-> "snapshotted", act |-> a,
                              pre |-> SourceRead(fs, a)]
                   /\ UNCHANGED <<log, pre, todo, highAns>>
    /\ UNCHANGED <<phase, mediumAns, asked, bkdir>>
    /\ UNCHANGED fixedVars

\* _dispatch(action), from the removal or rename of the source to the
\* append of its entry
DispatchFinish ==
    /\ phase = "exec" /\ cur.stage = "snapshotted"
    /\ LET f == dispatch_finish(impl, fs, cur.act)
       IN  /\ fs' = f.fs
           /\ log' = Append(log, f.entry)
    /\ pre' = Append(pre, cur.pre)
    /\ todo' = Tail(todo)
    /\ highAns' = "unasked"
    /\ cur' = Idle
    /\ UNCHANGED <<phase, mediumAns, asked, bkdir>>
    /\ UNCHANGED fixedVars

\* execute() returns the BackupInfo
ExecReturn ==
    /\ Running /\ todo = <<>>
    /\ phase' = "done"
    /\ UNCHANGED <<fs, log, pre, cur, todo, mediumAns, highAns, asked, bkdir>>
    /\ UNCHANGED fixedVars

\* the steps of execute that src/claude and src/codex have
NextExecCC ==
    \/ ExecDryRun
    \/ ExecStart
    \/ GateMediumCall
    \/ \E ans \in {"yes", "no"} : GateMediumReturn(ans)
    \/ SkipMedium
    \/ GateHighCall
    \/ \E ans \in {"yes", "no"} : GateHighReturn(ans)
    \/ DispatchBegin
    \/ DispatchFinish
    \/ ExecReturn

NextExec == NextExecCC \/ SkipGitignore

InitExecClaude == InitExecOf({"claude"})
InitExecCC == InitExecOf({"claude", "codex"})
InitFileOpsClaude == InitFileOps /\ impl = "claude"
InitLiveClaude == InitFileOpsClaude \/ InitExecClaude

\* SafeExecutor.execute of src/claude
SpecExecClaude == InitExecClaude /\ [][NextExecCC]_vars
\* SafeExecutor.execute of src/claude and src/codex
SpecExecCC == InitExecCC /\ [][NextExecCC]_vars
\* FileOps of src/claude called directly
SpecFileOpsClaude == InitFileOpsClaude /\ [][NextFileOps]_vars
\* a live run of src/claude: FileOps called directly, or SafeExecutor.execute
SpecLiveClaude == InitLiveClaude /\ [][NextFileOps \/ NextExecCC]_vars

(***************************************************************************)
(* Properties                                                              *)
(***************************************************************************)
Last(sq) == sq[Len(sq)]

\* a log entry of an action that went through
Succeeded(e) == e.status \in {"ok", "executed"} /\ e.backup_path # NoLoc

\* C1: backup before mutation.  In a live run (FileOps.delete / move called
\* directly, or SafeExecutor.execute), whenever a step removes or renames
\* away a source file, the backup path of that source (backup_dir / source)
\* already held, before the step, the content the source had.
C1_BackupBeforeMutation ==
    [][\A p \in RelPaths :
          (/\ phase \in {"ops", "exec"} /\ phase' = phase
           /\ Exists(fs, Proj(p)) /\ ~Exists(fs', Proj(p)))
          => /\ Exists(fs, backup_path_for(p))
             /\ Read(fs, backup_path_for(p)) = Read(fs, Proj(p))]_vars

\* C1 witness: the executor has moved a source away and logged its backup
C1_Witness ==
    /\ phase = "exec" /\ log # <<>>
    /\ Succeeded(Last(log))
    /\ Last(log).action.action_type = "MOVE"
    /\ ~Exists(fs, Proj(Last(log).action.source))
    /\ Read(fs, Last(log).backup_path) = Last(pre)

\* F is where an earlier entry of the log moved a file to
MovedTo(F) ==
    \E j \in 1..Len(log) :
        /\ log[j].action.action_type = "MOVE" /\ log[j].status = "ok"
        /\ log[j].action.destination = F

\* C2: rollback of a delete.  When the log ends with a DELETE of F that
\* succeeded while F held v (F not being the destination of a move of the
\* same log), then after rollback of that log F exists with content v.
C2_RollbackOfDelete ==
    (/\ phase = "rolledback" /\ log # <<>>
     /\ Last(log).action.action_type = "DELETE"
     /\ Last(log).status = "ok"
     /\ ~MovedTo(Last(log).action.source))
    => Read(fs, Proj(Last(log).action.source)) = Last(pre)

\* C2 witness: a deleted file is back after rollback
C2_Witness ==
    /\ phase = "rolledback" /\ log # <<>>
    /\ Last(log).action.action_type = "DELETE"
    /\ Last(log).status = "ok"
    /\ Last(pre) = Content0("a")
    /\ Read(fs, Proj("a")) = Content0("a")
    /\ restored >= 1

\* C3: rollback of a move restores the tree.  After one successful
\* MOVE A->B and rollback of its log, A holds its original content and B is
\* gone: the project tree is the tree before execution.
C3_RollbackOfMove ==
    (/\ phase = "rolledback" /\ Len(log) = 1
     /\ log[1].action.action_type = "MOVE" /\ log[1].status = "ok"
     /\ log[1].action.source # log[1].action.destination)
    => /\ Read(fs, Proj(log[1].action.source)) = pre[1]
       /\ ~Exists(fs, Proj(log[1].action.destination))
       /\ \A p \in InPaths : Read(fs, Proj(p)) = Read(disk0, Proj(p))

\* C4: rollback tracks rename lineage.  After MOVE A->B and DELETE B both
\* succeeded, rollback of the two-entry log leaves A with its original
\* content and B absent.
C4_RollbackLineage ==
    (/\ phase = "rolledback" /\ Len(log) = 2
     /\ log[1].action.action_type = "MOVE" /\ log[1].status = "ok"
     /\ log[2].action.action_type = "DELETE" /\ log[2].status = "ok"
     /\ log[1].action.source # log[1].action.destination
     /\ log[2].action.source = log[1].action.destination)
    => /\ Read(fs, Proj(log[1].action.source)) = pre[1]
       /\ ~Exists(fs, Proj(log[1].action.destination))

\* C5: dry-run is mutation-free.  Through a dry run the disk is the disk
\* before it, no backup directory is made and the action log is empty.
C5_DryRunMutationFree ==
    dryRun => /\ fs = disk0
              /\ ~bkdir
              /\ log = <<>>

\* C5 witness: a dry run returned for a plan that would delete file a
C5_Witness ==
    /\ dryRun /\ phase = "done"
    /\ \E k \in 1..Len(plan) : plan[k] = Action("DELETE", "a", None, "LOW")
    /\ Exists(fs, Proj("a"))

Traversal(a) == a.source \in OutPaths \/ a.destination \in OutPaths

\* nothing outside the project root was removed, renamed, replaced,
\* rewritten or backed up
OutsideUntouched ==
    \A p \in OutPaths :
        /\ fs.names[Proj(p)] = disk0.names[Proj(p)]
        /\ Read(fs, Proj(p)) = Read(disk0, Proj(p))
        /\ ~Exists(fs, backup_path_for(p))

\* C6: path-traversal firewall in FileOps.  A delete or move whose source or
\* destination resolves outside the project root returns status error, and
\* no path outside the root is created, removed, renamed or backed up.
C6_FileOpsFirewall ==
    phase = "ops" =>
        /\ \A k \in 1..Len(log) :
              Traversal(log[k].action) =>
                  log[k].status = "error" /\ log[k].backup_path = NoLoc
        /\ cur.stage = "snapshotted" => ~Traversal(cur.act)
        /\ OutsideUntouched

\* C6 witness: a delete of an outside path and a move of an existing file to
\* an outside path were both refused
C6_Witness ==
    /\ phase = "ops"
    /\ \E j, k \in 1..Len(log) :
          /\ log[j].action = Action("DELETE", "../x", None, "LOW")
          /\ log[j].status = "error"
          /\ log[k].action = Action("MOVE", "a", "../x", "LOW")
          /\ log[k].status = "error"
          /\ pre[k] = Content0("a")

\* C7: path-traversal firewall in live execution.  An approved DELETE or MOVE
\* whose source or destination resolves outside the project root is logged as
\* error, and no path outside the root is backed up, removed or renamed.
C7_ExecutorFirewall ==
    (phase \in {"exec", "done"} /\ ~dryRun) =>
        /\ \A k \in 1..Len(log) :
              (/\ Traversal(log[k].action)
               /\ log[k].action.action_type \in {"DELETE", "MOVE"}
               /\ log[k] # Refused(impl, log[k].action))
                  => log[k].status = "error"
        /\ OutsideUntouched

\* the action the executor is working on
AtHand == IF cur.stage = "snapshotted" THEN cur.act ELSE plan[Head(todo)]

Working == phase = "exec" /\ (cur.stage = "snapshotted" \/ todo # <<>>)

AllAnswers(v) == \A k \in 1..Len(asked) : asked[k].answer = v

\* every action of the plan has its entry, in the order execute walks the plan
EveryActionLogged ==
    /\ Len(log) = Len(plan)
    /\ \A k \in 1..Len(log) : log[k].action = plan[schedule(impl, plan)[k]]

\* C8: risk gating on denial.  In a live run whose predicate answers false
\* every time, every MEDIUM and HIGH action ends with a skipped entry without
\* backup, and no step taken for one of them changes the disk; when it
\* answers true every time, no MEDIUM or HIGH action is skipped: each is
\* dispatched and has the entry _dispatch returns.
C8_Denied ==
    (~dryRun /\ confirm = "fn" /\ AllAnswers("no")) =>
        /\ \A k \in 1..Len(log) :
              log[k].action.risk_level # "LOW" =>
                  log[k].status = "skipped" /\ log[k].backup_path = NoLoc
        /\ cur.stage = "snapshotted" => cur.act.risk_level = "LOW"
        /\ phase = "done" => EveryActionLogged

C8_Approved ==
    (~dryRun /\ confirm = "fn" /\ AllAnswers("yes") /\ phase = "done") =>
        /\ EveryActionLogged
        /\ \A k \in 1..Len(log) :
              /\ log[k].status \in {"executed", "error"}
              /\ (/\ log[k].action.action_type = "DELETE"
                  /\ pre[k] # None
                  /\ log[k].status = "executed")
                 => log[k].backup_path = backup_path_for(log[k].action.source)

C8_NoDiskChange ==
    (/\ confirm = "fn" /\ AllAnswers("no")' /\ Working
     /\ AtHand.risk_level # "LOW")
    => fs' = fs

C8_RiskGating ==
    [](C8_Denied /\ C8_Approved) /\ [][C8_NoDiskChange]_vars

\* C8 witness: a MEDIUM and a HIGH delete of existing files were both refused
\* and the disk is as before
C8_Witness ==
    /\ phase = "done" /\ ~dryRun /\ confirm = "fn"
    /\ Len(asked) = 2 /\ AllAnswers("no")
    /\ plan = <<Action("DELETE", "a", None, "HIGH"), Action("DELETE", "b", None, "MEDIUM")>>
    /\ Exists(disk0, Proj("b"))
    /\ log[1].status = "skipped" /\ log[2].status = "skipped"
    /\ fs = disk0

\* C9: no mutation before approval.  In a live run with a predicate, a step
\* that changes the disk for a MEDIUM action comes after the batch call
\* returned true, one for a HIGH action directly after that action's own
\* call returned true; while a call is pending nothing is dispatched.
C9_Approval ==
    (Working /\ confirm = "fn" /\ fs' # fs) =>
        /\ AtHand.risk_level = "MEDIUM" =>
              \E k \in 1..Len(asked) :
                  asked[k] = [kind |-> "MEDIUM", idx |-> 0, answer |-> "yes"]
        /\ AtHand.risk_level = "HIGH" =>
              /\ asked # <<>>
              /\ Last(asked) = [kind |-> "HIGH", idx |-> Head(todo), answer |-> "yes"]

C9_Blocking ==
    (mediumAns = "pending" \/ highAns = "pending") =>
        /\ fs' = fs /\ cur' = cur
        /\ Len(asked') = Len(asked) + 1
        /\ \A k \in 1..Len(log') : k > Len(log) => log'[k].status = "skipped"

C10_LowUngated ==
    /\ \A k \in 1..Len(asked) :
          /\ asked[k].kind = "HIGH" => plan[asked[k].idx].risk_level = "HIGH"
          /\ asked[k].kind = "MEDIUM" => HasMedium
    /\ (\A k \in 1..Len(plan) : plan[k].risk_level = "LOW") => asked = <<>>
    /\ \A k \in 1..Len(log) :
          log[k].action.risk_level = "LOW" => log[k].status \in {"executed", "error"}
    /\ (phase = "done" /\ ~dryRun) => EveryActionLogged

\* C10 witness: the predicate refused the HIGH action and the LOW delete of
\* file a was carried out all the same
C10_Witness ==
    /\ phase = "done" /\ confirm = "fn"
    /\ asked # <<>> /\ AllAnswers("no")
    /\ \E k \in 1..Len(log) :
          /\ log[k].action = Action("DELETE", "a", None, "LOW")
          /\ Succeeded(log[k])
    /\ ~Exists(fs, Proj("a"))

\* the calls of the predicate made for the MEDIUM batch
MediumCalls == {k \in 1..Len(asked) : asked[k].kind = "MEDIUM"}

HighCalls == {k \in 1..Len(asked) : asked[k].kind = "HIGH"}

\* the plan index of the k-th entry of the log
LoggedIndex(k) == schedule(impl, plan)[k]

Raised(e) == e.error \in {"OSError", "ValueError", "FileNotFoundError"}

\* the plan indices that get an entry, in the order execute walks the plan
LoggedIndices == SelectSeq(schedule(impl, plan), LAMBDA i : ~Handled(plan[i]))

\* C13: failure isolation.  In a live run an action whose dispatch raised is
\* recorded with status error, and the run goes on: when execute returns,
\* every action of the plan has been processed and has its entry.
C13_FailureIsolation ==
    ~dryRun =>
        /\ \A k \in 1..Len(log) : Raised(log[k]) => log[k].status = "error"
        /\ phase = "done" =>
              /\ Len(log) = Len(LoggedIndices)
              /\ \A k \in 1..Len(log) : log[k].action = plan[LoggedIndices[k]]

\* C14: plan-order execution.  In a live run the log grows in plan order: its
\* k-th entry is the entry of the k-th action of the plan, and an action
\* being dispatched is the one right after the actions already logged,
\* whatever the risk levels.
C14_PlanOrder ==
    (~dryRun /\ phase \in {"exec", "done"}) =>
        /\ Len(log) <= Len(plan)
        /\ \A k \in 1..Len(log) : log[k].action = plan[k]
        /\ cur.stage = "snapshotted" => cur.act = plan[Len(log) + 1]

(***************************************************************************)
(* Planning: the actions of producers and plans.  A path is the sequence   *)
(* of its characters, so that comparison, prefix test and rstrip are       *)
(* computed on the text as Python computes them.                           *)
(***************************************************************************)
\* ord(c) of the characters that occur
Code(c) == CASE c = "." -> 46 [] c = "/" -> 47 [] c = "v" -> 118
             [] c = "w" -> 119 [] c = "x" -> 120

\* s < t on str
RECURSIVE StrLess(_, _)
StrLess(s, t) ==
    IF t = <<>> THEN FALSE
    ELSE IF s = <<>> THEN TRUE
    ELSE IF Head(s) # Head(t) THEN Code(Head(s)) < Code(Head(t))
    ELSE StrLess(Tail(s), Tail(t))

\* the paths of the examples: a directory "v", the same with a trailing
\* slash, a file under it, a sibling whose name starts with it, and a file
\* of another directory
DirV == <<"v">>
DirVSlash == <<"v", "/">>
UnderV == <<"v", "/", "x">>
SiblingV == <<"v", "x">>
UnderW == <<"w", "/", "x">>

\* destination None
NoDest == <<>>

\* An Action object.  id stands for the identity of the object (id(a) in the
\* code): two actions with equal fields are still two objects.  The reason
\* text is the same for all and left out.
Act(id, t, src, dst, risk, conflict) ==
    [id |-> id, action_type |-> t, source |-> src, destination |-> dst,
     risk_level |-> risk, conflict |-> conflict]

RISK_ORDER(r) == CASE r = "LOW" -> 0 [] r = "MEDIUM" -> 1 [] r = "HIGH" -> 2

TYPE_ORDER(t) == CASE t = "ADD_GITIGNORE" -> 0 [] t = "DELETE" -> 1
                   [] t = "MOVE" -> 2 [] t = "REPORT_ONLY" -> 3

(***************************************************************************)
(* ActionPlanner, src/claude                                               *)
(***************************************************************************)
\* for result in results: all_actions.extend(result.actions)
RECURSIVE all_actions_of(_)
all_actions_of(results) ==
    IF results = <<>> THEN <<>>
    ELSE Head(results) \o all_actions_of(Tail(results))

\* the position in best (the values of the dict, in insertion order) of the
\* key (action_type, source), 0 when the key is not in the dict
KeyIndex(best, a) ==
    LET hits == {k \in 1..Len(best) : /\ best[k].action_type = a.action_type
                                      /\ best[k].source = a.source}
    IN  IF hits = {} THEN 0 ELSE CHOOSE k \in hits : TRUE

\* ActionPlanner._deduplicate: the loop from the i-th action on
RECURSIVE deduplicate_from(_, _, _)
deduplicate_from(actions, i, best) ==
    IF i > Len(actions) THEN best
    ELSE LET action == actions[i]
             k == KeyIndex(best, action)
         IN  deduplicate_from(actions, i + 1,
                 IF k = 0 THEN Append(best, action)
                 ELSE IF RISK_ORDER(action.risk_level) < RISK_ORDER(best[k].risk_level)
                 THEN [best EXCEPT ![k] = action]
                 ELSE best)

\* mutant: the first action seen for a key is kept whatever its risk
deduplicate_first_seen(actions) ==
    SelectSeq(actions, LAMBDA a :
        \A k \in 1..Len(actions) :
            (actions[k].action_type = a.action_type /\ actions[k].source = a.source)
                => actions[k].id >= a.id)

\* mutant: every action is kept, whatever its key
deduplicate_nothing(actions) == actions

deduplicate(actions) == deduplicate_from(actions, 1, <<>>)

\* _sort_key(a) < _sort_key(b), on the tuples (risk, type, source)
SortKeyLess(a, b) ==
    \/ RISK_ORDER(a.risk_level) < RISK_ORDER(b.risk_level)
    \/ /\ a.risk_level = b.risk_level
       /\ \/ TYPE_ORDER(a.action_type) < TYPE_ORDER(b.action_type)
          \/ /\ a.action_type = b.action_type
             /\ StrLess(a.source, b.source)

\* sorted(deduped, key=_sort_key), a stable sort: each action goes before
\* the first one already placed whose key is greater
RECURSIVE sorted_from(_, _, _)
sorted_from(actions, i, acc) ==
    IF i > Len(actions) THEN acc
    ELSE LET a == actions[i]
             later == {j \in 1..Len(acc) : SortKeyLess(a, acc[j])}
             at == IF later = {} THEN Len(acc) + 1
                   ELSE CHOOSE j \in later : \A m \in later : j <= m
         IN  sorted_from(actions, i + 1,
                 SubSeq(acc, 1, at - 1) \o <<a>> \o SubSeq(acc, at, Len(acc)))

\* mutant: the deduplicated list is returned unsorted
sorted_by_key_not(actions) == actions

sorted_by_key(actions) == sorted_from(actions, 1, <<>>)

\* ActionPlanner.build_plan: the actions of the plan
build_plan(results) == sorted_by_key(deduplicate(all_actions_of(results)))

\* What producers propose: type, source, destination, risk.
ProducerKinds ==
    {<<t, src, IF t = "MOVE" THEN UnderW ELSE NoDest, r>> :
        t \in {"DELETE", "MOVE"}, src \in {UnderV, SiblingV}, r \in Risks}
    \cup {<<"ADD_GITIGNORE", DirV, NoDest, r>> : r \in Risks}
    \cup {<<"REPORT_ONLY", UnderV, NoDest, r>> : r \in Risks}

\* the objects of a list of proposals, the k-th with identity k
Objects(kinds) ==
    [k \in 1..Len(kinds) |->
        Act(k, kinds[k][1], kinds[k][2], kinds[k][3], kinds[k][4], FALSE)]

\* the results of the producers: one result with every action, or one
\* result for each action
ResultsOf(actions) ==
    {<<actions>>, [k \in 1..Len(actions) |-> <<actions[k]>>]}

\* everything outside planning is at rest
NoDisk ==
    /\ linkOK = FALSE
    /\ fs = InitDisk(FALSE)
    /\ disk0 = fs
    /\ log = <<>>
    /\ pre = <<>>
    /\ cur = Idle
    /\ restored = -1
    /\ calls = 0
    /\ saved = NoFile
    /\ ExecIdle

planningFixed == <<impl, linkOK, fs, log, pre, cur, restored, calls, disk0, given,
                   saved, ceiling, runs>>

\* ActionPlanner(results, project_dir)
InitPlanner ==
    /\ impl = "claude"
    /\ phase = "producers"
    /\ \E n \in 0..MaxIn : \E kinds \in [1..n -> ProducerKinds] :
          given \in ResultsOf(Objects(kinds))
    /\ made = <<>>
    /\ ceiling = "HIGH" /\ runs = <<>>
    /\ NoDisk

\* plan = planner.build_plan()
BuildPlan ==
    /\ phase = "producers"
    /\ made' = build_plan(given)
    /\ phase' = "planned"
    /\ UNCHANGED planningFixed
    /\ UNCHANGED <<plan, dryRun, confirm, todo, mediumAns, highAns, asked, bkdir>>

NextPlanner == BuildPlan

\* ActionPlanner.build_plan of src/claude on every list of proposals
SpecPlanner == InitPlanner /\ [][NextPlanner]_vars

\* the producers' actions, in the order build_plan sees them
Proposed == all_actions_of(given)

SameKey(a, b) == a.action_type = b.action_type /\ a.source = b.source

\* C15: dedup.  The plan build_plan returns has exactly one action for each
\* (action_type, source) key of the input and none for other keys; the one
\* kept is an input action of that key with the lowest risk among the key's
\* actions, and of those with that risk the first in the input.
C15_Dedup ==
    phase = "planned" =>
        /\ \A i \in 1..Len(Proposed) :
              \E k \in 1..Len(made) : SameKey(made[k], Proposed[i])
        /\ \A k, m \in 1..Len(made) : SameKey(made[k], made[m]) => k = m
        /\ \A k \in 1..Len(made) :
              /\ made[k].id \in 1..Len(Proposed)
              /\ made[k] = Proposed[made[k].id]
              /\ \A i \in 1..Len(Proposed) :
                    SameKey(Proposed[i], made[k]) =>
                        \/ RISK_ORDER(made[k].risk_level) < RISK_ORDER(Proposed[i].risk_level)
                        \/ /\ made[k].risk_level = Proposed[i].risk_level
                           /\ made[k].id <= i

\* C15 witness: of DELETE v/x at MEDIUM, LOW and LOW, the first LOW one is
\* the one in the plan
C15_Witness ==
    /\ phase = "planned"
    /\ Len(Proposed) = 3
    /\ \A i \in 1..3 : Proposed[i].action_type = "DELETE" /\ Proposed[i].source = UnderV
    /\ Proposed[1].risk_level = "MEDIUM"
    /\ Proposed[2].risk_level = "LOW" /\ Proposed[3].risk_level = "LOW"
    /\ made = <<Proposed[2]>>

\* C16: sort.  In the plan build_plan returns, each action and the next are
\* in non-decreasing order of the key (risk, type priority, source).
C16_Sort ==
    phase = "planned" =>
        \A k \in 1..(Len(made) - 1) : ~SortKeyLess(made[k + 1], made[k])

\* C16 witness: three proposals given in descending order come out ascending
C16_Witness ==
    /\ phase = "planned"
    /\ Len(Proposed) = 3 /\ Len(made) = 3
    /\ SortKeyLess(Proposed[3], Proposed[2]) /\ SortKeyLess(Proposed[2], Proposed[1])
    /\ made = <<Proposed[3], Proposed[2], Proposed[1]>>
    /\ made[1].risk_level = made[2].risk_level
    /\ made[1].action_type = made[2].action_type
    /\ made[2].risk_level # made[3].risk_level

(***************************************************************************)
(* ConflictResolver.  The passes change Action objects in place and return *)
(* a list of the same objects; here each pass returns the list with the    *)
(* changed fields, the id of an object telling which one it is.            *)
(***************************************************************************)
\* s.startswith(prefix)
StartsWith(s, prefix) ==
    Len(prefix) <= Len(s) /\ SubSeq(s, 1, Len(prefix)) = prefix

\* s.rstrip("/")
RECURSIVE rstrip_slash(_)
rstrip_slash(s) ==
    IF s # <<>> /\ s[Len(s)] = "/" THEN rstrip_slash(SubSeq(s, 1, Len(s) - 1)) ELSE s

\* src/codex _normalize_dir: leading "./" removed, then rstrip("/")
\* (no path here holds a backslash)
RECURSIVE normalize_dir(_)
normalize_dir(dir_path) ==
    IF StartsWith(dir_path, <<".", "/">>)
    THEN normalize_dir(SubSeq(dir_path, 3, Len(dir_path)))
    ELSE rstrip_slash(dir_path)

\* pathlib: the parts of Path(s) for a relative s, empty and "." parts dropped
RECURSIVE PathParts(_, _)
PathParts(s, part) ==
    LET done == IF part \in {<<>>, <<".">>} THEN <<>> ELSE <<part>>
    IN  IF s = <<>> THEN done
        ELSE IF Head(s) = "/" THEN done \o PathParts(Tail(s), <<>>)
        ELSE PathParts(Tail(s), Append(part, Head(s)))

\* Path(dir) in Path(file).parents
InParents(dir, file) ==
    LET d == PathParts(dir, <<>>)
        f == PathParts(file, <<>>)
    IN  Len(d) < Len(f) /\ SubSeq(f, 1, Len(d)) = d

\* a == b on src/gemini Action objects: every field (not the identity)
ValueEq(a, b) == [a EXCEPT !.id = 0] = [b EXCEPT !.id = 0]

\* "a in actions_to_remove" for a set of src/gemini Action objects
InSet(a, actions, ids) == \E k \in 1..Len(actions) : actions[k].id \in ids /\ ValueEq(a, actions[k])

HasType(actions, src, t) ==
    \E k \in 1..Len(actions) : actions[k].source = src /\ actions[k].action_type = t

\* the first action of the list with this source and type
IsFirstOf(actions, k, t) ==
    /\ actions[k].action_type = t
    /\ \A j \in 1..(k - 1) : ~(actions[j].source = actions[k].source /\ actions[j].action_type = t)

\* _find_delete_move_conflicts, src/claude (src/codex computes the same
\* list: every DELETE of a source that has a MOVE goes, every MOVE of such a
\* source gets conflict and HIGH)
find_delete_move_conflicts_claude(actions) ==
    LET both(a) == HasType(actions, a.source, "DELETE") /\ HasType(actions, a.source, "MOVE")
        marked == [k \in 1..Len(actions) |->
                      IF actions[k].action_type = "MOVE" /\ both(actions[k])
                      THEN [actions[k] EXCEPT !.conflict = TRUE, !.risk_level = "HIGH"]
                      ELSE actions[k]]
    IN  SelectSeq(marked, LAMBDA a : ~(a.action_type = "DELETE" /\ both(a)))

\* _find_delete_move_conflicts, src/gemini: of a source with a DELETE and a
\* MOVE, the first DELETE goes into the set and the first MOVE is marked
find_delete_move_conflicts_gemini(actions) ==
    LET both(a) == HasType(actions, a.source, "DELETE") /\ HasType(actions, a.source, "MOVE")
        removed == {actions[k].id : k \in {j \in 1..Len(actions) :
                        both(actions[j]) /\ IsFirstOf(actions, j, "DELETE")}}
        marked == [k \in 1..Len(actions) |->
                      IF both(actions[k]) /\ IsFirstOf(actions, k, "MOVE")
                      THEN [actions[k] EXCEPT !.conflict = TRUE, !.risk_level = "HIGH"]
                      ELSE actions[k]]
    IN  SelectSeq(marked, LAMBDA a : ~InSet(a, marked, removed))

\* a duplicate pass that lets the last MOVE of a source stay beside the first
find_duplicate_move_conflicts_first_and_last(actions) ==
    LET n == Len(actions)
        last(k) == \A j \in (k + 1)..n :
                      ~(actions[j].action_type = "MOVE" /\ actions[j].source = actions[k].source)
        kept == {actions[k].id : k \in {j \in 1..n : IsFirstOf(actions, j, "MOVE") \/ last(j)}}
    IN  SelectSeq(actions, LAMBDA a : a.action_type = "MOVE" => a.id \in kept)

\* _find_duplicate_move_conflicts, src/claude: the first MOVE of a source
\* stays, later ones go; no field is changed
find_duplicate_move_conflicts_claude(actions) ==
    LET first == {actions[k].id : k \in {j \in 1..Len(actions) : IsFirstOf(actions, j, "MOVE")}}
    IN  SelectSeq(actions, LAMBDA a : a.action_type = "MOVE" => a.id \in first)

\* _find_duplicate_move_conflicts, src/codex: of several MOVEs of a source
\* the first of sorted(key=(risk_level, idx)) stays and gets conflict
find_duplicate_move_conflicts_codex(actions) ==
    LET n == Len(actions)
        dup(k) == /\ actions[k].action_type = "MOVE"
                  /\ \E j \in 1..n : j # k /\ actions[j].action_type = "MOVE"
                                     /\ actions[j].source = actions[k].source
        keep(k) == \A j \in 1..n :
                      (actions[j].action_type = "MOVE" /\ actions[j].source = actions[k].source)
                      => \/ RISK_ORDER(actions[k].risk_level) < RISK_ORDER(actions[j].risk_level)
                         \/ /\ actions[k].risk_level = actions[j].risk_level
                            /\ k <= j
        kept == {actions[k].id : k \in {j \in 1..n : dup(j) /\ keep(j)}}
        gone == {actions[k].id : k \in {j \in 1..n : dup(j) /\ ~keep(j)}}
        marked == [k \in 1..n |-> IF actions[k].id \in kept
                                  THEN [actions[k] EXCEPT !.conflict = TRUE]
                                  ELSE actions[k]]
    IN  SelectSeq(marked, LAMBDA a : a.id \notin gone)

\* _find_duplicate_move_conflicts, src/gemini: of several MOVEs of a source
\* the first gets conflict and the rest goes into the set
find_duplicate_move_conflicts_gemini(actions) ==
    LET n == Len(actions)
        dup(k) == /\ actions[k].action_type = "MOVE"
                  /\ \E j \in 1..n : j # k /\ actions[j].action_type = "MOVE"
                                     /\ actions[j].source = actions[k].source
        rest == {actions[k].id : k \in {j \in 1..n : dup(j) /\ ~IsFirstOf(actions, j, "MOVE")}}
        marked == [k \in 1..n |-> IF dup(k) /\ IsFirstOf(actions, k, "MOVE")
                                  THEN [actions[k] EXCEPT !.conflict = TRUE]
                                  ELSE actions[k]]
    IN  SelectSeq(marked, LAMBDA a : ~InSet(a, marked, rest))

\* _find_delete_move_conflicts, src/codex: has_move, filtered and the marks
\* give the list src/claude computes
find_delete_move_conflicts_codex(actions) == find_delete_move_conflicts_claude(actions)

\* the actions of one type, in order
OfType(actions, t) == SelectSeq(actions, LAMBDA a : a.action_type = t)

\* a redundancy pass whose prefix test is made without the "/"
find_redundant_deletes_by_name_prefix(actions) ==
    SelectSeq(actions, LAMBDA a :
        ~(/\ a.action_type = "DELETE"
          /\ \E k \in 1..Len(actions) :
                /\ actions[k].action_type = "ADD_GITIGNORE"
                /\ StartsWith(a.source, rstrip_slash(actions[k].source))))

\* _find_redundant_deletes_in_gitignore_dirs, src/claude
find_redundant_deletes_claude(actions) ==
    SelectSeq(actions, LAMBDA a :
        ~(/\ a.action_type = "DELETE"
          /\ \E k \in 1..Len(actions) :
                /\ actions[k].action_type = "ADD_GITIGNORE"
                /\ StartsWith(a.source, Append(rstrip_slash(actions[k].source), "/"))))

\* _find_redundant_deletes_in_gitignore_dirs, src/codex: empty directories
\* are left out, and the ADD_GITIGNORE actions of a directory that covers a
\* DELETE get conflict
find_redundant_deletes_codex(actions) ==
    LET n == Len(actions)
        dir(k) == normalize_dir(actions[k].source)
        covers(k, a) == /\ actions[k].action_type = "ADD_GITIGNORE"
                        /\ dir(k) # <<>>
                        /\ StartsWith(a.source, Append(dir(k), "/"))
        \* the first directory of gitignore_dirs that matches: the loop breaks
        hit(k, a) == covers(k, a) /\ \A j \in 1..(k - 1) : ~covers(j, a)
        marked == [k \in 1..n |->
                      IF /\ actions[k].action_type = "ADD_GITIGNORE"
                         /\ \E m, j \in 1..n : /\ actions[m].action_type = "DELETE"
                                               /\ hit(j, actions[m])
                                               /\ dir(j) = dir(k)
                      THEN [actions[k] EXCEPT !.conflict = TRUE]
                      ELSE actions[k]]
    IN  SelectSeq(marked, LAMBDA a :
            ~(a.action_type = "DELETE" /\ \E k \in 1..n : covers(k, a)))

\* _find_redundant_deletes_in_gitignore_dirs, src/gemini
find_redundant_deletes_gemini(actions) ==
    LET gone == {actions[k].id : k \in {m \in 1..Len(actions) :
                    /\ actions[m].action_type = "DELETE"
                    /\ \E j \in 1..Len(actions) :
                          /\ actions[j].action_type = "ADD_GITIGNORE"
                          /\ InParents(actions[j].source, actions[m].source)}}
    IN  SelectSeq(actions, LAMBDA a : ~InSet(a, actions, gone))

\* {a.source: a for a in moves}[src]: the last MOVE with this source
SourceToMove(moves, src) ==
    moves[CHOOSE k \in 1..Len(moves) :
            /\ moves[k].source = src
            /\ \A j \in 1..Len(moves) : moves[j].source = src => j <= k]

\* in_degree of a MOVE after the loop over the moves: 1 when its destination
\* is the source of a MOVE, else 0
InDegree(moves, m) ==
    IF m.destination # NoDest /\ \E k \in 1..Len(moves) : moves[k].source = m.destination
    THEN 1 ELSE 0

\* Kahn's algorithm: the queue is served first in, first out, and the moves
\* waiting for the one served (in the order they were recorded) join it
RECURSIVE kahn(_, _, _)
kahn(moves, queue, sorted_moves) ==
    IF queue = <<>> THEN sorted_moves
    ELSE LET action == Head(queue)
             successors == SelectSeq(moves, LAMBDA m :
                               /\ InDegree(moves, m) = 1
                               /\ SourceToMove(moves, m.destination).id = action.id)
         IN  kahn(moves, Tail(queue) \o successors, Append(sorted_moves, action))

\* the moves in topological order, as far as the queue gets
kahn_order(moves) ==
    kahn(moves, SelectSeq(moves, LAMBDA m : InDegree(moves, m) = 0), <<>>)

NotMoves(actions) == SelectSeq(actions, LAMBDA a : a.action_type # "MOVE")

\* mutant: the moves are left in the order they came in
reorder_move_chain_unsorted(actions) ==
    NotMoves(actions) \o OfType(actions, "MOVE")

\* mutant: the actions that are not moves are lost
reorder_move_chain_moves_only(actions) ==
    kahn_order(OfType(actions, "MOVE"))

\* _reorder_move_chain, src/claude: what the queue did not reach (a cycle)
\* is appended in the old order
reorder_move_chain_claude(actions) ==
    LET moves == OfType(actions, "MOVE")
        sorted_moves == kahn_order(moves)
        seen_ids == {sorted_moves[k].id : k \in 1..Len(sorted_moves)}
    IN  NotMoves(actions) \o sorted_moves
            \o SelectSeq(moves, LAMBDA a : a.id \notin seen_ids)

\* the list with conflict set on the objects whose id is in ids
MarkConflict(actions, ids) ==
    [k \in 1..Len(actions) |->
        IF actions[k].id \in ids THEN [actions[k] EXCEPT !.conflict = TRUE] ELSE actions[k]]

\* _reorder_move_chain, src/codex: one MOVE or none, a cycle, or an order
\* that is already right leave the list as it is (the moves left waiting in
\* a cycle get conflict); else the MOVE slots are refilled in sorted order
\* and every MOVE gets conflict
reorder_move_chain_codex(actions) ==
    LET nodes == SelectSeq(actions, LAMBDA a :
                     \E k \in 1..Len(actions) : actions[k].id = a.id /\ IsFirstOf(actions, k, "MOVE"))
        ordered == kahn_order(nodes)
        reached == {ordered[k].id : k \in 1..Len(ordered)}
        slot(k) == Cardinality({j \in 1..k : actions[j].action_type = "MOVE"})
    IN  IF Len(OfType(actions, "MOVE")) <= 1 THEN actions
        ELSE IF Len(ordered) # Len(nodes)
        THEN MarkConflict(actions, {nodes[k].id : k \in 1..Len(nodes)} \ reached)
        ELSE IF ordered = nodes THEN actions
        ELSE MarkConflict([k \in 1..Len(actions) |->
                              IF actions[k].action_type = "MOVE" THEN ordered[slot(k)]
                              ELSE actions[k]],
                          reached)

\* _reorder_move_chain, src/gemini: a MOVE that waits for another and the one
\* it waits for get conflict; on a cycle the moves keep their order
reorder_move_chain_gemini(actions) ==
    LET moves0 == OfType(actions, "MOVE")
        chained == {m \in 1..Len(moves0) : InDegree(moves0, moves0[m]) = 1}
        ids == {moves0[m].id : m \in chained}
                 \cup {SourceToMove(moves0, moves0[m].destination).id : m \in chained}
        move_actions == MarkConflict(moves0, ids)
        sorted_moves == kahn_order(move_actions)
    IN  IF moves0 = <<>> THEN actions
        ELSE IF Len(sorted_moves) # Len(move_actions)
        THEN NotMoves(actions) \o move_actions
        ELSE NotMoves(actions) \o sorted_moves

\* ConflictResolver.resolve, passes 1 to 3: the list that enters the
\* move-chain pass
entering_reorder(i, actions) ==
    IF i = "claude"
    THEN find_redundant_deletes_claude(
             find_duplicate_move_conflicts_claude(find_delete_move_conflicts_claude(actions)))
    ELSE IF i = "codex"
    THEN find_redundant_deletes_codex(
             find_duplicate_move_conflicts_codex(find_delete_move_conflicts_codex(actions)))
    ELSE find_redundant_deletes_gemini(
             find_duplicate_move_conflicts_gemini(find_delete_move_conflicts_gemini(actions)))

\* ConflictResolver.resolve: the four passes in their order
resolve(i, actions) ==
    IF i = "claude" THEN reorder_move_chain_claude(entering_reorder(i, actions))
    ELSE IF i = "codex" THEN reorder_move_chain_codex(entering_reorder(i, actions))
    ELSE reorder_move_chain_gemini(entering_reorder(i, actions))

\* The actions a plan handed to the resolver may hold: DELETEs of the
\* directory, of a file under it, of its sibling and of an outside file;
\* MOVEs that share a source, form a chain of up to three or a cycle of two;
\* ADD_GITIGNORE of the
\* directory with and without trailing slash; a REPORT_ONLY.
ResolverKinds ==
    {<<"DELETE", src, NoDest, r>> :
        src \in {DirV, UnderV, SiblingV, UnderW}, r \in {"LOW", "MEDIUM"}}
    \cup {<<"MOVE", sd[1], sd[2], r>> :
        sd \in {<<UnderV, UnderW>>, <<UnderV, SiblingV>>, <<UnderW, UnderV>>}, r \in Risks}
    \cup {<<"MOVE", SiblingV, DirV, "LOW">>}
    \cup {<<"ADD_GITIGNORE", src, NoDest, "LOW">> : src \in {DirV, DirVSlash}}
    \cup {<<"REPORT_ONLY", UnderV, NoDest, "LOW">>}

\* ConflictResolver(plan)
InitResolverOf(impls) ==
    /\ impl \in impls
    /\ phase = "plan"
    /\ \E n \in 0..MaxGiven : \E kinds \in [1..n -> ResolverKinds] :
          given = Objects(kinds)
    /\ made = <<>>
    /\ ceiling = "HIGH" /\ runs = <<>>
    /\ NoDisk

\* resolved = resolver.resolve()
Resolve ==
    /\ phase = "plan"
    /\ made' = resolve(impl, given)
    /\ phase' = "resolved"
    /\ UNCHANGED planningFixed
    /\ UNCHANGED <<plan, dryRun, confirm, todo, mediumAns, highAns, asked, bkdir>>

NextResolver == Resolve

\* ConflictResolver.resolve of src/claude
SpecResolverClaude == InitResolverOf({"claude"}) /\ [][NextResolver]_vars

\* ConflictResolver.resolve of src/claude and src/gemini
SpecResolverCG == InitResolverOf({"claude", "gemini"}) /\ [][NextResolver]_vars

\* the sources that have an action of type t in the list
SourcesOf(actions, t) ==
    {actions[k].source : k \in {j \in 1..Len(actions) : actions[j].action_type = t}}

\* the actions of type t and source src in the list
Of(actions, t, src) ==
    SelectSeq(actions, LAMBDA a : a.action_type = t /\ a.source = src)

\* C17: after resolve, for every source that the plan both deletes and
\* moves, no DELETE of that source remains, a MOVE of it is kept, and every
\* kept MOVE of it has conflict = TRUE and risk_level HIGH.
C17_DeleteMoveConflict ==
    phase = "resolved" =>
        \A src \in SourcesOf(given, "DELETE") \cap SourcesOf(given, "MOVE") :
            /\ Of(made, "DELETE", src) = <<>>
            /\ Of(made, "MOVE", src) # <<>>
            /\ \A k \in 1..Len(made) :
                  (made[k].action_type = "MOVE" /\ made[k].source = src) =>
                      made[k].conflict /\ made[k].risk_level = "HIGH"

\* C18: after resolve, each source has at most one MOVE, and a source the
\* plan moved at least once still has exactly one.
C18_DuplicateMoveUnique ==
    phase = "resolved" =>
        /\ \A src \in SourcesOf(made, "MOVE") : Len(Of(made, "MOVE", src)) = 1
        /\ \A src \in SourcesOf(given, "MOVE") : Len(Of(made, "MOVE", src)) = 1

\* a plan with several MOVEs of one source has been resolved to one of them
C18_Witness ==
    /\ phase = "resolved"
    /\ \E src \in SourcesOf(given, "MOVE") :
          /\ Len(Of(given, "MOVE", src)) = 3
          /\ Len(Of(made, "MOVE", src)) = 1

\* ConflictResolver.resolve of src/claude and src/codex
SpecResolverCC == InitResolverOf({"claude", "codex"}) /\ [][NextResolver]_vars

\* position k of the plan holds the MOVE of its source that has the lowest
\* risk, the earliest among those of equal risk
LowestRiskMove(actions, k) ==
    /\ actions[k].action_type = "MOVE"
    /\ \A j \in 1..Len(actions) :
          (actions[j].action_type = "MOVE" /\ actions[j].source = actions[k].source) =>
              \/ RISK_ORDER(actions[k].risk_level) < RISK_ORDER(actions[j].risk_level)
              \/ RISK_ORDER(actions[k].risk_level) = RISK_ORDER(actions[j].risk_level) /\ k <= j

\* C19: when several MOVEs of the plan share a source (and no DELETE of
\* that source raises their risk first), the MOVE that resolve keeps is the
\* one of lowest risk, the earliest among equals, and it has conflict = TRUE.
C19_DuplicateMoveSurvivor ==
    phase = "resolved" =>
        \A src \in SourcesOf(given, "MOVE") \ SourcesOf(given, "DELETE") :
            Len(Of(given, "MOVE", src)) > 1 =>
                \A m \in 1..Len(made) :
                    (made[m].action_type = "MOVE" /\ made[m].source = src) =>
                        /\ made[m].conflict
                        /\ \E k \in 1..Len(given) :
                              given[k].id = made[m].id /\ LowestRiskMove(given, k)

\* file lies strictly under the directory dir: dir without trailing slashes,
\* then "/", then at least one more character
StrictlyUnder(file, dir) ==
    \E n \in 1..(Len(file) - 1) :
        file[n] = "/" /\ SubSeq(file, 1, n - 1) = rstrip_slash(dir)

\* plan position k holds a DELETE under a directory some ADD_GITIGNORE names
UnderIgnored(actions, k) ==
    \E j \in 1..Len(actions) :
        /\ actions[j].action_type = "ADD_GITIGNORE"
        /\ StrictlyUnder(actions[k].source, actions[j].source)

\* the object at plan position k is not in the resolved plan
Dropped(k) == \A m \in 1..Len(made) : made[m].id # given[k].id

\* C20 as stated: resolve drops a DELETE if and only if its source lies
\* strictly under D/ for some ADD_GITIGNORE action with source D.
C20_RedundantDeleteAsStated ==
    phase = "resolved" =>
        \A k \in 1..Len(given) :
            given[k].action_type = "DELETE" => (Dropped(k) <=> UnderIgnored(given, k))

\* C20, amended: resolve drops a DELETE whose source no MOVE of the plan
\* shares if and only if its source lies strictly under D/ for some
\* ADD_GITIGNORE action with source D; the DELETE of D itself, of a sibling
\* whose name starts with D, and of a path outside are kept.
C20_RedundantDelete ==
    phase = "resolved" =>
        \A k \in 1..Len(given) :
            (given[k].action_type = "DELETE" /\ given[k].source \notin SourcesOf(given, "MOVE")) =>
                (Dropped(k) <=> UnderIgnored(given, k))

\* a plan that ignores v has lost its DELETE of v/x and kept the DELETE of vx
C20_Witness ==
    /\ phase = "resolved"
    /\ SourcesOf(given, "MOVE") = {}
    /\ \E j, k \in 1..Len(given) :
          /\ given[j].action_type = "DELETE" /\ given[j].source = UnderV /\ Dropped(j)
          /\ given[k].action_type = "DELETE" /\ given[k].source = SiblingV /\ ~Dropped(k)

(***************************************************************************)
(* The move-chain pass                                                     *)
(***************************************************************************)
\* the positions of the MOVEs that the MOVE at position k waits for, directly
\* or through at most n links: those whose source is its destination
RECURSIVE WaitsFor(_, _, _)
WaitsFor(actions, k, n) ==
    IF n = 0 THEN {}
    ELSE LET direct == {j \in 1..Len(actions) :
                           /\ actions[j].action_type = "MOVE"
                           /\ actions[j].source = actions[k].destination}
         IN  direct \cup UNION {WaitsFor(actions, j, n - 1) : j \in direct}

\* the move-dependency graph of the list has no cycle
Acyclic(actions) ==
    \A k \in 1..Len(actions) :
        actions[k].action_type = "MOVE" => k \notin WaitsFor(actions, k, Len(actions))

\* C21: for a plan whose move-dependency graph is acyclic, every MOVE of the
\* resolved plan whose source is the destination of another MOVE of it
\* stands strictly before that other MOVE.
C21_MoveChainOrder ==
    (phase = "resolved" /\ Acyclic(given)) =>
        \A m, n \in 1..Len(made) :
            (/\ made[m].action_type = "MOVE" /\ made[n].action_type = "MOVE"
             /\ m # n /\ made[m].source = made[n].destination) => m < n

\* a chain of three moves given in the wrong order has been turned round
C21_Witness ==
    /\ phase = "resolved"
    /\ Len(given) = 3 /\ Len(made) = 3
    /\ given[1].source = UnderW /\ given[1].destination = UnderV
    /\ given[2].source = UnderV /\ given[2].destination = SiblingV
    /\ given[3].source = SiblingV /\ given[3].destination = DirV
    /\ \A k \in 1..3 : given[k].action_type = "MOVE" /\ made[k].id = 4 - k

\* the list that entered the move-chain pass of the resolved plan
Entering == entering_reorder(impl, given)

\* the ids of the MOVEs of a list
MoveIds(actions) ==
    {actions[k].id : k \in {j \in 1..Len(actions) : actions[j].action_type = "MOVE"}}

\* C22: when the move-chain pass succeeds (no cycle), the actions that are
\* not MOVEs stand in the resolved plan in the relative order they had when
\* they entered the pass, unchanged, and the MOVEs are the same objects,
\* each once.
C22_ReorderFrame ==
    (phase = "resolved" /\ Acyclic(Entering)) =>
        /\ NotMoves(made) = NotMoves(Entering)
        /\ MoveIds(made) = MoveIds(Entering)
        /\ Len(OfType(made, "MOVE")) = Len(OfType(Entering, "MOVE"))
        /\ Len(made) = Len(Entering)

\* a chain was reordered beside an action that is not a move
C22_Witness ==
    /\ phase = "resolved"
    /\ Acyclic(Entering)
    /\ Len(NotMoves(made)) = 1 /\ Len(OfType(made, "MOVE")) = 2
    /\ \E m, n \in 1..Len(made) : \E j, k \in 1..Len(Entering) :
          /\ m < n /\ k < j
          /\ made[m].id = Entering[j].id /\ made[n].id = Entering[k].id
          /\ made[m].action_type = "MOVE" /\ made[n].action_type = "MOVE"

\* the plan has none of the four interactions the resolver looks for
ConflictFree(actions) ==
    /\ SourcesOf(actions, "DELETE") \cap SourcesOf(actions, "MOVE") = {}
    /\ \A src \in SourcesOf(actions, "MOVE") : Len(Of(actions, "MOVE", src)) = 1
    /\ \A k \in 1..Len(actions) :
          actions[k].action_type = "DELETE" => ~UnderIgnored(actions, k)
    /\ \A k \in 1..Len(actions) :
          actions[k].action_type = "MOVE" => WaitsFor(actions, k, 1) = {}

\* C23: a plan without conflicts comes back from resolve as it went in: the
\* same actions in the same order, no conflict flag set.
C23_ConflictFreeUnchanged ==
    (phase = "resolved" /\ ConflictFree(given)) => made = given

(***************************************************************************)
(* The file primitives, continued                                          *)
(***************************************************************************)
\* C24: a FileOps.move of an existing source onto an existing destination
\* that is another file returns at once with status error and leaves the
\* disk as it was: source and destination still hold what they held.
C24_MoveOntoExisting ==
    [][\A p, q \in InPaths :
          (/\ p # q /\ Exists(fs, Proj(p)) /\ Exists(fs, Proj(q))
           /\ CallMove(p, q))
          => /\ Len(log') = Len(log) + 1
             /\ log' = Append(log, Last(log'))
             /\ Last(log').status = "error"
             /\ Last(log').action = Action("MOVE", p, q, "LOW")
             /\ fs' = fs]_vars

\* a move onto an existing file has been refused, both files are there
C24_Witness ==
    /\ phase = "ops" /\ log # <<>>
    /\ Last(log).action.action_type = "MOVE"
    /\ Last(log).status = "error"
    /\ Last(log).error = "destination exists"
    /\ Read(fs, Proj(Last(log).action.source)) = Content0(Last(log).action.source)
    /\ Read(fs, Proj(Last(log).action.destination)) = Content0(Last(log).action.destination)

(***************************************************************************)
(* The executor, continued                                                 *)
(***************************************************************************)
\* the step that appends an entry has written something into the backup
\* directory, or ends a dispatch whose snapshot step left the backup there
BackupWritten ==
    \/ \E l \in Locs : l[1] = "bk" /\ Read(fs', l) # Read(fs, l)
    \/ /\ cur.stage = "snapshotted"
       /\ Read(fs, <<"bk", cur.act.source>>) = cur.pre

\* C25: every entry a live execute appends to the action log has a status
\* among executed, skipped and error, has a backup path if and only if a
\* backup was written for its action, and has an error value if and only if
\* its status is error.
C25_LogEntryShape ==
    [][(phase = "exec" /\ ~dryRun /\ Len(log') = Len(log) + 1) =>
          LET e == Last(log')
          IN  /\ e.status \in {"executed", "skipped", "error"}
              /\ (e.backup_path # NoLoc) <=> BackupWritten
              /\ (e.error # None) <=> (e.status = "error")]_vars

(***************************************************************************)
(* The execute and rollback commands (main.py)                             *)
(***************************************************************************)
\* Path.write_text: the file is created when absent, an existing one is
\* truncated and rewritten in place
WriteText(d, loc, text) ==
    IF Exists(d, loc)
    THEN [d EXCEPT !.data[d.names[loc]] = text]
    ELSE [names |-> [d.names EXCEPT ![loc] = Len(d.data) + 1],
          data  |-> Append(d.data, text)]

\* GitignoreGen.apply(actions, dry_run=False) as the execute command calls
\* it.  The plans here name one directory, so there is one entry at most.
\* src/claude writes the file even when nothing is new; src/gemini is called
\* only when the plan has an ADD_GITIGNORE action and returns early when no
\* entry is new; src/codex calls apply with dry_run=True and writes nothing.
gitignore_apply(i, d, pl) ==
    LET gi == Proj(".gitignore")
        wanted == {"/" \o pl[k].source \o "/" :
                      k \in {j \in 1..Len(pl) : pl[j].action_type = "ADD_GITIGNORE"}}
        new_entries == {e \in wanted : ~HasLine(d, gi, e)}
        existing == IF Exists(d, gi) THEN Read(d, gi) ELSE ""
        content == IF new_entries = {} THEN existing
                   ELSE existing \o "+#" \o "+" \o (CHOOSE e \in new_entries : TRUE)
    IN  IF i = "codex" THEN d
        ELSE IF i = "gemini" /\ new_entries = {} THEN d
        ELSE WriteText(d, gi, content)

\* what the execute command writes as "action_log" of action_log.json.
\* src/claude: the four keys of every entry.  src/codex: only the entries
\* of DELETE and MOVE that have a backup path, status "ok" for executed and
\* "skipped" otherwise, no error key.
action_log_json(i, lg) ==
    IF i = "claude"
    THEN [k \in 1..Len(lg) |->
             Entry(lg[k].action, lg[k].status, lg[k].backup_path, lg[k].error, NoLoc, NoLoc)]
    ELSE LET kept == SelectSeq(lg, LAMBDA e :
                         /\ e.backup_path # NoLoc
                         /\ e.action.action_type \in {"DELETE", "MOVE"})
         IN  [k \in 1..Len(kept) |->
                 Entry(kept[k].action,
                       IF kept[k].status \in {"executed", "ok", "done", "success"}
                       THEN "ok" ELSE "skipped",
                       kept[k].backup_path, None, NoLoc, NoLoc)]

\* the rollback command: without action_log.json it ends with an error
\* (src/gemini prints it and returns), else FileOps.rollback runs on the
\* list read from the file (src/gemini hands over the whole document)
rollback_command(i, d, sv) ==
    IF ~sv.exists THEN [fs |-> d, count |-> -1, raised |-> i # "gemini"]
    ELSE rollback(i, d, sv.action_log)

\* the execute command is invoked with a saved plan
InitCommands ==
    /\ impl \in ExecImpls
    /\ linkOK \in BOOLEAN
    /\ fs \in {InitDisk(TRUE), InitDisk(FALSE)}
    /\ disk0 = fs
    /\ log = <<>> /\ pre = <<>> /\ cur = Idle
    /\ phase = "cmd"
    /\ restored = -1 /\ calls = 0
    /\ plan \in Plans
    /\ dryRun \in BOOLEAN
    /\ confirm = IF impl = "claude" THEN "none" ELSE "fn"
    /\ todo = <<>> /\ mediumAns = "unasked" /\ highAns = "unasked"
    /\ asked = <<>> /\ bkdir = FALSE
    /\ PlanningIdle

\* execute: the plan is loaded, the .gitignore entries are applied and the
\* SafeExecutor is built
CommandStart ==
    /\ phase = "cmd"
    /\ fs' = IF dryRun THEN fs ELSE gitignore_apply(impl, fs, plan)
    /\ phase' = "start"
    /\ UNCHANGED <<log, pre, cur, todo, mediumAns, highAns, asked, bkdir>>
    /\ UNCHANGED fixedVars

\* execute, after executor.execute(): the action log is persisted (live
\* runs of src/claude, and of src/codex when the backup directory exists)
\* and the summary printed; src/gemini prints the summary only
ExecuteCommandReturn ==
    /\ phase = "done"
    /\ saved' = IF ~dryRun /\ impl # "gemini" /\ (impl = "codex" => bkdir)
                THEN [exists |-> TRUE, action_log |-> action_log_json(impl, log)]
                ELSE saved
    /\ phase' = "returned"
    /\ UNCHANGED <<impl, linkOK, fs, log, pre, cur, restored, calls, disk0>>
    /\ UNCHANGED <<plan, dryRun, confirm, todo, mediumAns, highAns, asked, bkdir,
                   given, made, ceiling, runs>>

\* rollback --backup-dir <the directory of the run>
RollbackCommand ==
    /\ phase = "returned" /\ ~dryRun
    /\ LET r == rollback_command(impl, fs, saved)
       IN  /\ fs' = r.fs
           /\ restored' = r.count
           /\ phase' = IF r.raised THEN "raised" ELSE "rolledback"
    /\ UNCHANGED <<impl, linkOK, log, pre, cur, calls, disk0>>
    /\ UNCHANGED execVars

NextCommands == CommandStart \/ NextExec \/ ExecuteCommandReturn \/ RollbackCommand

\* the execute command and then the rollback command, every variant
SpecCommands == InitCommands /\ [][NextCommands]_vars

\* C26: after every live run of the execute command action_log.json exists
\* in the run's backup directory, and after the rollback command on that
\* directory every file the run deleted or moved with a backup written
\* holds again what it held before that action.
C26_PersistedLogRollback ==
    /\ (phase \in {"returned", "rolledback", "raised"} /\ ~dryRun) => saved.exists
    /\ (phase \in {"rolledback", "raised"}) =>
          \A k \in 1..Len(log) :
              (/\ log[k].action.action_type \in {"DELETE", "MOVE"}
               /\ log[k].backup_path # NoLoc
               /\ log[k].status \in {"executed", "ok"})
              => Read(fs, Proj(log[k].action.source)) = pre[k]


(***************************************************************************)
(* FileOps.rollback on any action log                                      *)
(***************************************************************************)
\* Disks with backups: a is absent, present, or one file with its backup
\* (a hard link); the backup of a is missing or present; b is absent or
\* present and its backup is present.
LogDisks ==
    {[names |-> [l \in Locs |->
                    IF l = Proj("a") THEN pa
                    ELSE IF l = Proj("b") THEN pb
                    ELSE IF l = Proj("../x") THEN 3
                    ELSE IF l = backup_path_for("a") THEN ba
                    ELSE IF l = backup_path_for("b") THEN 6
                    ELSE 0],
      data |-> <<Content0("a"), Content0("b"), Content0("../x"),
                 Content0(".gitignore"), "bak_a", "bak_b">>] :
        pa \in {0, 1, 5}, pb \in {0, 2}, ba \in {0, 5}}

\* The entries of a log: any status, a source inside or outside the root,
\* and a backup path that is not set, under the backup directory, or a file
\* of the project tree (not under the backup directory).
LogEntries ==
    {Entry(Action("DELETE", p, None, "LOW"), st, bk, None, Proj(p), NoLoc) :
        p \in RelPaths,
        st \in {"ok", "executed", "skipped", "error"},
        bk \in {NoLoc, backup_path_for("a"), backup_path_for("b"), Proj("b")}}

Logs == UNION {[1..n -> LogEntries] : n \in 0..MaxLog}

\* a FileOps and an action log, as the rollback command reads one
InitRollbackOf(impls) ==
    /\ impl \in impls
    /\ linkOK = TRUE
    /\ fs \in LogDisks
    /\ disk0 = fs
    /\ log \in Logs
    /\ pre = <<>>
    /\ cur = Idle
    /\ phase = "ops"
    /\ restored = -1
    /\ calls = 0
    /\ ExecIdle
    /\ PlanningIdle

\* rollback(log) of src/claude and src/codex
SpecRollbackCC == InitRollbackOf({"claude", "codex"}) /\ [][Rollback]_vars

\* rollback(log) of src/claude and src/gemini
SpecRollbackCG == InitRollbackOf({"claude", "gemini"}) /\ [][Rollback]_vars

\* every backup path of the log lies under the backup directory
UnderBackupDir(lg) ==
    \A k \in 1..Len(lg) : lg[k].backup_path = NoLoc \/ lg[k].backup_path[1] = "bk"

\* no file of the project is one file with a backup
NoHardLinks(d) ==
    \A l, m \in Locs : (l[1] = "proj" /\ m[1] = "bk" /\ Exists(d, l)) => d.names[l] # d.names[m]

\* where entry e is restored to: src/claude takes the backup's path
\* relative to the backup directory, the others the source of the action
OriginalOf(e) ==
    IF impl = "claude" THEN Proj(relative_to_backup_dir(e.backup_path))
    ELSE Proj(e.action.source)

\* entry k of the log is one rollback restores: a successful status, a
\* backup path, the backup is there, the original is inside the root and is
\* not the backup file itself
Restorable(k) ==
    /\ log[k].status \in (IF impl = "claude" THEN {"ok", "executed"} ELSE {"ok"})
    /\ log[k].backup_path # NoLoc
    /\ Exists(fs, log[k].backup_path)
    /\ OriginalOf(log[k])[2] \in InPaths
    /\ fs.names[log[k].backup_path] # fs.names[OriginalOf(log[k])]

\* C27: rollback of a log whose backup paths lie under the backup directory
\* returns the number of entries it restored, these are exactly the entries
\* with a successful status and a backup that can be copied back; a file no
\* such entry names (so every file named only by skipped or error entries)
\* is left as it was; and as the log is processed newest first, a file that
\* several entries restore ends with the backup of the oldest of them.
C27_RollbackSuccessfulNewestFirst ==
    [][(phase = "ops" /\ phase' = "rolledback" /\ UnderBackupDir(log)) =>
          /\ restored' = Cardinality({k \in 1..Len(log) : Restorable(k)})
          /\ \A l \in {m \in Locs : m[1] = "proj"} :
                LET ks == {k \in 1..Len(log) : Restorable(k) /\ OriginalOf(log[k]) = l}
                    oldest == CHOOSE k \in ks : \A j \in ks : k <= j
                IN  IF ks = {}
                    THEN fs'.names[l] = fs.names[l] /\ Read(fs', l) = Read(fs, l)
                    ELSE NoHardLinks(fs) =>
                            Read(fs', l) = Read(fs, log[oldest].backup_path)]_vars

\* two successful entries restore one file from different backups: two
\* restores are counted and the file holds the backup of the older entry
C27_Witness ==
    /\ phase = "rolledback"
    /\ Len(log) = 2
    /\ log[1].status = "ok" /\ log[2].status = "ok"
    /\ log[1].action.source = "a" /\ log[2].action.source = "a"
    /\ log[1].backup_path = backup_path_for("b")
    /\ log[2].backup_path = backup_path_for("a")
    /\ impl = "codex"
    /\ restored = 2
    /\ Read(fs, Proj("a")) = "bak_b"


\* C28: rollback of any log whose entries all carry a backup path ends
\* without raising, whatever entries have a missing backup, a backup path
\* outside the backup directory or a backup that cannot be copied, and every
\* other entry rollback restores is still restored: its file exists
\* afterwards.
C28_RollbackNeverAborted ==
    [][(/\ phase = "ops" /\ phase' \in {"rolledback", "raised"}
        /\ \A k \in 1..Len(log) : log[k].backup_path # NoLoc) =>
          /\ phase' = "rolledback"
          /\ \A k \in 1..Len(log) :
                (Restorable(k) /\ log[k].backup_path[1] = "bk")
                => Exists(fs', OriginalOf(log[k]))]_vars


\* C29: in a live run, the step of the executor that handles an
\* ADD_GITIGNORE or REPORT_ONLY action and logs its entry leaves the disk as
\* it was: no file of the project tree is created, changed, removed or
\* renamed and no backup is written.
C29_InformationalNoOp ==
    [][(/\ phase = "exec" /\ ~dryRun
        /\ Len(log') = Len(log) + 1
        /\ Last(log').action.action_type \in {"ADD_GITIGNORE", "REPORT_ONLY"})
       => fs' = fs]_vars


(***************************************************************************)
(* The analyze command (main.py): build_plan, the risk ceiling, resolve    *)
(***************************************************************************)
\* [a for a in plan.actions if a.risk_level <= max_risk]
within_ceiling(actions, c) ==
    SelectSeq(actions, LAMBDA a : RISK_ORDER(a.risk_level) <= RISK_ORDER(c))

\* _filter_plan_by_risk of src/codex
filter_plan_by_risk(actions, c) ==
    IF c = "HIGH" THEN actions ELSE within_ceiling(actions, c)

\* mutant: analyze that saves the resolved plan whatever the ceiling
analyze_unfiltered(i, c, results) == resolve(i, build_plan(results))

\* The actions of the plan analyze saves.  src/claude filters the built
\* plan and resolves what is left; src/codex resolves the built plan (its
\* ActionPlanner is the one of src/claude) and filters the result.
analyze(i, c, results) ==
    IF i = "claude" THEN resolve(i, within_ceiling(build_plan(results), c))
    ELSE filter_plan_by_risk(resolve(i, build_plan(results)), c)

\* What the five analyzers of the analyze command propose: DELETE of a
\* file at any risk (BackupAnalyzer LOW or MEDIUM, DuplicateAnalyzer MEDIUM
\* or HIGH), ADD_GITIGNORE of a directory at LOW (VendorAnalyzer) and
\* REPORT_ONLY at any risk (ComplexityAnalyzer, StructureAnalyzer).  None
\* proposes a MOVE.
AnalyzerKinds ==
    {<<"DELETE", src, NoDest, r>> : src \in {UnderV, SiblingV}, r \in Risks}
    \cup {<<"ADD_GITIGNORE", DirV, NoDest, "LOW">>}
    \cup {<<"REPORT_ONLY", UnderV, NoDest, r>> : r \in Risks}

\* analyze --risk-level <ceiling>, after the analyzers have run
InitAnalyzeOf(impls) ==
    /\ impl \in impls
    /\ phase = "producers"
    /\ \E n \in 0..MaxIn : \E kinds \in [1..n -> AnalyzerKinds] :
          given \in ResultsOf(Objects(kinds))
    /\ made = <<>>
    /\ ceiling \in Risks
    /\ runs = <<>>
    /\ NoDisk

\* analyze, from build_plan to the plan written to --output-plan
Analyze ==
    /\ phase = "producers"
    /\ made' = analyze(impl, ceiling, given)
    /\ phase' = "saved"
    /\ UNCHANGED planningFixed
    /\ UNCHANGED <<plan, dryRun, confirm, todo, mediumAns, highAns, asked, bkdir>>

\* analyze of src/claude and src/codex
SpecAnalyzeCC == InitAnalyzeOf({"claude", "codex"}) /\ [][Analyze]_vars

\* C30: the plan analyze saves has no action above the ceiling, and it is
\* the resolved plan (resolve applied to the plan build_plan returns)
\* without its actions above the ceiling, in the resolved order.
C30_RiskCeiling ==
    phase = "saved" =>
        /\ \A k \in 1..Len(made) :
              RISK_ORDER(made[k].risk_level) <= RISK_ORDER(ceiling)
        /\ made = within_ceiling(resolve(impl, build_plan(given)), ceiling)


\* ceiling LOW in src/claude: a HIGH action was in the built plan and is
\* not saved, the resolver dropped a LOW DELETE under the ignored
\* directory, and what is saved is the ADD_GITIGNORE
C30_Witness ==
    /\ phase = "saved" /\ impl = "claude" /\ ceiling = "LOW"
    /\ \E k \in 1..Len(build_plan(given)) : build_plan(given)[k].risk_level = "HIGH"
    /\ \E k \in 1..Len(build_plan(given)) :
          /\ build_plan(given)[k].action_type = "DELETE"
          /\ build_plan(given)[k].risk_level = "LOW"
          /\ \A m \in 1..Len(made) : made[m].id # build_plan(given)[k].id
    /\ Len(made) = 1
    /\ made[1].action_type = "ADD_GITIGNORE"


(***************************************************************************)
(* core/models.py: Action and ActionPlan, to_dict and from_dict            *)
(***************************************************************************)
\* The members of an Enum class.  RiskLevel of src/claude has, besides LOW,
\* MEDIUM and HIGH, the member _order that its class body defines.
EnumMembers(enum) ==
    {[enum |-> enum, name |-> n] :
        n \in IF enum = "ActionType"
              THEN {"DELETE", "MOVE", "ADD_GITIGNORE", "REPORT_ONLY"}
              ELSE {"LOW", "MEDIUM", "HIGH", "_order"}}

\* member.value: the name, and for _order the list of the three names
EnumValue(m) == IF m.name = "_order" THEN "['LOW', 'MEDIUM', 'HIGH']" ELSE m.name

\* ActionType(value), RiskLevel(value): the member that has the value
EnumByValue(enum, v) == CHOOSE m \in EnumMembers(enum) : EnumValue(m) = v

\* d.get(key, default)
DictGet(d, key, default) == IF key \in DOMAIN d THEN d[key] ELSE default

Action_to_dict(a) ==
    [action_type |-> EnumValue(a.action_type), source |-> a.source,
     destination |-> a.destination, risk_level |-> EnumValue(a.risk_level),
     reason |-> a.reason, conflict |-> a.conflict]

\* mutant: from_dict that does not read the conflict key
Action_from_dict_without_conflict(d) ==
    [action_type |-> EnumByValue("ActionType", d["action_type"]),
     source |-> d["source"],
     destination |-> DictGet(d, "destination", None),
     risk_level |-> EnumByValue("RiskLevel", d["risk_level"]),
     reason |-> d["reason"],
     conflict |-> FALSE]

Action_from_dict(d) ==
    [action_type |-> EnumByValue("ActionType", d["action_type"]),
     source |-> d["source"],
     destination |-> DictGet(d, "destination", None),
     risk_level |-> EnumByValue("RiskLevel", d["risk_level"]),
     reason |-> d["reason"],
     conflict |-> DictGet(d, "conflict", FALSE)]

ActionPlan_to_dict(p) ==
    [actions |-> [k \in 1..Len(p.actions) |-> Action_to_dict(p.actions[k])],
     created_at |-> p.created_at, project_dir |-> p.project_dir]

ActionPlan_from_dict(d) ==
    LET dicts == DictGet(d, "actions", <<>>)
    IN  [actions |-> [k \in 1..Len(dicts) |-> Action_from_dict(dicts[k])],
         created_at |-> DictGet(d, "created_at", ""),
         project_dir |-> DictGet(d, "project_dir", "")]

\* the Action objects of a plan: every member of both enums, destination
\* None or a path, conflict set or not
ActionObjects ==
    [action_type : EnumMembers("ActionType"), source : {"v/x"},
     destination : {None, "w/x"}, risk_level : EnumMembers("RiskLevel"),
     reason : {"why"}, conflict : BOOLEAN]

\* an ActionPlan object, made[k] being the k-th value computed from it
InitModels ==
    /\ impl = "claude"
    /\ phase = "object"
    /\ \E n \in 0..MaxPlan :
          given \in [actions : [1..n -> ActionObjects],
                     created_at : {"", "2026-02-27T00:00:00"},
                     project_dir : {"/var/www/project"}]
    /\ made = <<>>
    /\ ceiling = "HIGH" /\ runs = <<>>
    /\ NoDisk

\* d = plan.to_dict(), on the plan at hand
Serialize ==
    /\ phase \in {"object", "restored"}
    /\ made' = Append(made, ActionPlan_to_dict(IF made = <<>> THEN given ELSE Last(made)))
    /\ phase' = IF phase = "object" THEN "dict" ELSE "dict again"
    /\ UNCHANGED planningFixed
    /\ UNCHANGED <<plan, dryRun, confirm, todo, mediumAns, highAns, asked, bkdir>>

\* restored = ActionPlan.from_dict(d)
Deserialize ==
    /\ phase = "dict"
    /\ made' = Append(made, ActionPlan_from_dict(Last(made)))
    /\ phase' = "restored"
    /\ UNCHANGED planningFixed
    /\ UNCHANGED <<plan, dryRun, confirm, todo, mediumAns, highAns, asked, bkdir>>

\* to_dict, from_dict, to_dict of src/claude on every plan
SpecModels == InitModels /\ [][Serialize \/ Deserialize]_vars

\* C31: for every plan p, to_dict(from_dict(to_dict(p))) is to_dict(p):
\* the same actions in the same order with the same six fields each, the
\* same created_at and the same project_dir.
C31_RoundTrip ==
    phase = "dict again" =>
        /\ made[3] = made[1]
        /\ made[1] = ActionPlan_to_dict(given)
        /\ Len(made[3].actions) = Len(given.actions)

\* a plan of two actions, the first with destination None and the conflict
\* flag set, the second a MOVE with a destination, has made the round trip
C31_Witness ==
    /\ phase = "dict again"
    /\ Len(given.actions) = 2
    /\ given.actions[1].destination = None /\ given.actions[1].conflict
    /\ given.actions[2].action_type.name = "MOVE"
    /\ given.actions[2].destination = "w/x" /\ ~given.actions[2].conflict
    /\ given.created_at # ""
    /\ made[3].actions[1].conflict /\ made[3].actions[1].destination = None


(***************************************************************************)
(* The rollback command on any backup directory                            *)
(***************************************************************************)
\* rollback --backup-dir <dir>: the directory holds no action_log.json, or
\* one with any log (for src/gemini the document is the list itself, the
\* only form its FileOps.rollback can iterate)
InitRollbackCommandOf(impls) ==
    /\ impl \in impls
    /\ linkOK = TRUE
    /\ fs \in LogDisks
    /\ disk0 = fs
    /\ log = <<>> /\ pre = <<>> /\ cur = Idle
    /\ phase = "returned"
    /\ restored = -1 /\ calls = 0
    /\ ExecIdle
    /\ given = <<>> /\ made = <<>> /\ ceiling = "HIGH" /\ runs = <<>>
    /\ saved \in {NoFile} \cup {[exists |-> TRUE, action_log |-> lg] : lg \in Logs}

\* the rollback command of src/claude and src/gemini
SpecRollbackCommandCG == InitRollbackCommandOf({"claude", "gemini"}) /\ [][RollbackCommand]_vars

\* The exit status of a command: an exception that leaves the command
\* (a ClickException as well) gives a non-zero status, a return gives 0.
ExitStatus == IF phase = "raised" THEN 1 ELSE 0

\* C32: the rollback command on a backup directory without action_log.json
\* ends with a non-zero exit status and the disk as it was; on a log whose
\* entries are all skipped or error entries it ends with exit status 0.
C32_FatalDistinguishable ==
    phase \in {"rolledback", "raised"} =>
        /\ ~saved.exists => (ExitStatus # 0 /\ fs = disk0)
        /\ (/\ saved.exists
            /\ \A k \in 1..Len(saved.action_log) :
                  saved.action_log[k].status \in {"skipped", "error"})
           => ExitStatus = 0


(***************************************************************************)
(* Move cycles and the conflict report                                     *)
(***************************************************************************)
\* ConflictResolver.resolve of src/claude, src/codex and src/gemini
SpecResolverAll == InitResolverOf(ExecImpls) /\ [][NextResolver]_vars

\* C33: when the MOVEs that enter the move-chain pass hold a dependency
\* cycle, the resolved plan has every action, MOVE or not, at the position
\* it had when it entered the pass.
C33_CycleOrderUnchanged ==
    (phase = "resolved" /\ ~Acyclic(Entering)) =>
        /\ Len(made) = Len(Entering)
        /\ \A k \in 1..Len(made) : made[k].id = Entering[k].id


\* conflict_report() of src/claude after resolve(): the records appended,
\* type and source of each.  The DELETE+MOVE pass appends one record for
\* each source that has both (in the order the sources first appear), the
\* duplicate pass one for each MOVE it removes, the redundant-delete pass
\* one for each DELETE it removes; _reorder_move_chain appends none.
conflict_report_claude(actions) ==
    LET a1 == find_delete_move_conflicts_claude(actions)
        a2 == find_duplicate_move_conflicts_claude(a1)
        a3 == find_redundant_deletes_claude(a2)
        ids(list) == {list[k].id : k \in 1..Len(list)}
        s1 == SelectSeq(actions, LAMBDA a :
                  /\ HasType(actions, a.source, "DELETE")
                  /\ HasType(actions, a.source, "MOVE")
                  /\ \E k \in 1..Len(actions) :
                        /\ actions[k].id = a.id
                        /\ \A j \in 1..(k - 1) : actions[j].source # a.source)
        s2 == SelectSeq(a1, LAMBDA a : a.id \notin ids(a2))
        s3 == SelectSeq(a2, LAMBDA a : a.id \notin ids(a3))
    IN  [k \in 1..Len(s1) |-> [type |-> "DELETE_MOVE_CONFLICT", source |-> s1[k].source]]
        \o [k \in 1..Len(s2) |-> [type |-> "DUPLICATE_MOVE_CONFLICT", source |-> s2[k].source]]
        \o [k \in 1..Len(s3) |-> [type |-> "REDUNDANT_DELETE", source |-> s3[k].source]]

\* the types of the records _reorder_move_chain of src/codex appends
move_chain_record_types_codex(actions) ==
    LET nodes == SelectSeq(actions, LAMBDA a :
                     \E k \in 1..Len(actions) : actions[k].id = a.id /\ IsFirstOf(actions, k, "MOVE"))
        ordered == kahn_order(nodes)
    IN  IF Len(OfType(actions, "MOVE")) <= 1 THEN <<>>
        ELSE IF Len(ordered) # Len(nodes) THEN <<"MOVE_CHAIN_CYCLE">>
        ELSE IF ordered = nodes THEN <<>>
        ELSE <<"MOVE_CHAIN_REORDERED">>

\* position k of the list holds a MOVE that is a member of a cycle
InCycle(actions, k) ==
    actions[k].action_type = "MOVE" /\ k \in WaitsFor(actions, k, Len(actions))

\* the conflict report holds a record for a move cycle
CycleRecorded ==
    IF impl = "claude"
    THEN \E k \in 1..Len(conflict_report_claude(given)) :
            conflict_report_claude(given)[k].type = "MOVE_CHAIN_CYCLE"
    ELSE \E k \in 1..Len(move_chain_record_types_codex(Entering)) :
            move_chain_record_types_codex(Entering)[k] = "MOVE_CHAIN_CYCLE"

\* C34: when the MOVEs that enter the move-chain pass hold a cycle, every
\* MOVE of the cycle has conflict set in the resolved plan, a MOVE outside
\* every cycle has the flag it had when it entered the pass, and the
\* conflict report holds a record for the cycle.
C34_CycleSurfaced ==
    (phase = "resolved" /\ ~Acyclic(Entering)) =>
        /\ \A k \in 1..Len(Entering) : \A m \in 1..Len(made) :
              made[m].id = Entering[k].id =>
                 IF InCycle(Entering, k) THEN made[m].conflict
                 ELSE Entering[k].action_type = "MOVE" =>
                         made[m].conflict = Entering[k].conflict
        /\ CycleRecorded


\* C35: whenever the plan resolve() of src/claude returns differs from the
\* plan it was given (an action removed, a conflict flag set, a risk level
\* raised, the order changed), conflict_report() holds at least one record.
C35_EveryChangeRecorded ==
    (phase = "resolved" /\ impl = "claude" /\ made # given) =>
        Len(conflict_report_claude(given)) >= 1


(***************************************************************************)
(* A call of FileOps.delete or FileOps.move that stops between the backup  *)
(* write and the removal of the source, and the same call made again with  *)
(* the same backup directory.                                              *)
(***************************************************************************)
\* the process stops after _hard_link_or_copy returned and before
\* src.unlink() or src.rename(dst) ran
Crash ==
    /\ phase = "ops" /\ cur.stage = "snapshotted"
    /\ cur' = [cur EXCEPT !.stage = "crashed"]
    /\ UNCHANGED <<impl, linkOK, fs, log, pre, phase, restored, calls, disk0>>
    /\ UNCHANGED execVars

\* ops.delete(action) or ops.move(action) again, the whole call
Retry ==
    /\ phase = "ops" /\ cur.stage = "crashed"
    /\ LET a == cur.act
           r == IF a.action_type = "DELETE" THEN delete_snapshot(impl, fs, a)
                ELSE move_snapshot(impl, fs, a)
           f == IF a.action_type = "DELETE" THEN delete_finish(impl, r.fs, a)
                ELSE move_finish(impl, r.fs, a)
       IN  IF r.done
           THEN fs' = r.fs /\ log' = Append(log, r.entry)
           ELSE fs' = f.fs /\ log' = Append(log, f.entry)
    /\ pre' = Append(pre, cur.pre)
    /\ cur' = Idle
    /\ UNCHANGED <<impl, linkOK, phase, restored, calls, disk0>>
    /\ UNCHANGED execVars

SpecCrashClaude == InitFileOpsClaude /\ [][NextFileOps \/ Crash \/ Retry]_vars

\* C36: after a delete or move stopped between its backup write and the
\* removal of its source, the source still holds its original content, and
\* the same call made again returns "ok" with the backup holding that
\* content.
C36_CrashThenRetry ==
    [][cur.stage = "crashed" =>
          /\ Read(fs, Proj(cur.act.source)) = cur.pre
          /\ Len(log') = Len(log) + 1
          /\ log'[Len(log')].status = "ok"
          /\ Read(fs', backup_path_for(cur.act.source)) = cur.pre]_vars


(***************************************************************************)
(* Two live runs of SafeExecutor.execute and the backup directory each     *)
(* creates: BACKUP_ROOT / timestamp, the timestamp being the clock         *)
(* formatted to the second.                                                *)
(***************************************************************************)
besidesRuns == <<impl, linkOK, fs, log, pre, cur, phase, restored, calls, disk0,
                 plan, dryRun, confirm, todo, mediumAns, highAns, asked, bkdir,
                 given, made, saved, ceiling>>

\* datetime.now(timezone.utc).strftime("%Y%m%dT%H%M%SZ"): the part of the
\* clock below one second is dropped
strftime(now) == now.second

\* SafeExecutor._create_backup_dir: src/claude and src/gemini call
\* mkdir(parents=True, exist_ok=True), src/codex mkdir(parents=False,
\* exist_ok=False), which raises FileExistsError on an existing directory.
create_backup_dir(i, dirs, timestamp) ==
    IF i = "codex" /\ timestamp \in dirs
    THEN [ok |-> FALSE, dirs |-> dirs]
    ELSE [ok |-> TRUE, dirs |-> dirs \cup {timestamp}]

InitTwoRuns ==
    /\ impl \in ExecImpls
    /\ phase = "runs"
    /\ given = <<>> /\ made = <<>> /\ ceiling = "HIGH"
    /\ NoDisk
    /\ runs = [now |-> [second |-> 0, late |-> FALSE],
               dirs |-> {},
               wrote |-> {},
               run |-> [r \in {1, 2} |-> [stage |-> "new", dir |-> -1]]]

\* time passes
Tick ==
    /\ phase = "runs"
    /\ IF ~runs.now.late
       THEN runs' = [runs EXCEPT !.now.late = TRUE]
       ELSE /\ runs.now.second < MaxSecond
            /\ runs' = [runs EXCEPT !.now = [second |-> runs.now.second + 1, late |-> FALSE]]
    /\ UNCHANGED besidesRuns

\* execute() of run r, live, up to the return of _create_backup_dir
CreateBackupDir(r) ==
    /\ phase = "runs" /\ runs.run[r].stage = "new"
    /\ LET timestamp == strftime(runs.now)
           c == create_backup_dir(impl, runs.dirs, timestamp)
       IN  runs' = [runs EXCEPT !.dirs = c.dirs,
                                !.run[r] = IF c.ok
                                           THEN [stage |-> "created", dir |-> timestamp]
                                           ELSE [stage |-> "raised", dir |-> -1]]
    /\ UNCHANGED besidesRuns

\* _dispatch of run r writes a backup under its backup_dir
WriteBackup(r) ==
    /\ phase = "runs" /\ runs.run[r].stage = "created"
    /\ runs' = [runs EXCEPT !.wrote = @ \cup {<<r, runs.run[r].dir>>},
                            !.run[r].stage = "wrote"]
    /\ UNCHANGED besidesRuns

SpecTwoRuns ==
    InitTwoRuns /\ [][Tick \/ \E r \in {1, 2} : CreateBackupDir(r) \/ WriteBackup(r)]_vars

\* C37: the backup directory one live run writes into is never written
\* into by the other run: the two write into different directories, or the
\* later one fails before it writes a backup.
C37_BackupDirsExclusive ==
    phase = "runs" =>
        \A p \in runs.wrote : \A q \in runs.wrote : p[2] = q[2] => p[1] = q[1]


(***************************************************************************)
(* From the producers to the disk: build_plan, resolve, the plan saved and *)
(* loaded, and a run of SafeExecutor.execute on it.  The plan holds the    *)
(* chain MOVE v/x -> w/x, MOVE w/x -> vx; v/x and w/x exist, vx does not.  *)
(***************************************************************************)
\* str of a path: its characters in a row
RECURSIVE PathStr(_)
PathStr(path) == IF path = <<>> THEN "" ELSE Head(path) \o PathStr(Tail(path))

\* ActionPlan.from_dict of the saved plan: the actions SafeExecutor gets
LoadedPlan(actions) ==
    [k \in 1..Len(actions) |->
        Action(actions[k].action_type, PathStr(actions[k].source),
               IF actions[k].destination = NoDest THEN None
               ELSE PathStr(actions[k].destination),
               actions[k].risk_level)]

ChainPaths == {PathStr(UnderV), PathStr(UnderW), PathStr(SiblingV)}

ChainDisk ==
    [names |-> [l \in {"proj", "bk"} \X ChainPaths |->
                    IF l = Proj(PathStr(UnderV)) THEN 1
                    ELSE IF l = Proj(PathStr(UnderW)) THEN 2
                    ELSE 0],
     data |-> <<Content0(PathStr(UnderV)), Content0(PathStr(UnderW))>>]

\* the two moves of the chain in either order, each at any risk level, and
\* possibly a REPORT_ONLY next to them
ChainKinds ==
    {<<<<"MOVE", UnderV, UnderW, r1>>, <<"MOVE", UnderW, SiblingV, r2>>>> : r1 \in Risks, r2 \in Risks}
    \cup {<<<<"MOVE", UnderW, SiblingV, r2>>, <<"MOVE", UnderV, UnderW, r1>>>> : r1 \in Risks, r2 \in Risks}
    \cup {<<<<"MOVE", UnderV, UnderW, r1>>, <<"REPORT_ONLY", UnderV, NoDest, "LOW">>,
            <<"MOVE", UnderW, SiblingV, r2>>>> : r1 \in Risks, r2 \in Risks}

InitChain ==
    /\ impl = "claude"
    /\ linkOK = TRUE
    /\ fs = ChainDisk
    /\ disk0 = fs
    /\ log = <<>> /\ pre = <<>> /\ cur = Idle
    /\ phase = "producers"
    /\ restored = -1 /\ calls = 0
    /\ plan = <<>>
    /\ dryRun \in BOOLEAN
    /\ confirm \in Confirms(impl)
    /\ todo = <<>>
    /\ mediumAns = "unasked" /\ highAns = "unasked"
    /\ asked = <<>>
    /\ bkdir = FALSE
    /\ \E kinds \in ChainKinds : given \in ResultsOf(Objects(kinds))
    /\ made = <<>>
    /\ saved = NoFile
    /\ ceiling = "HIGH" /\ runs = <<>>

\* the execute command reads the saved plan and constructs SafeExecutor
LoadPlan ==
    /\ phase = "saved"
    /\ plan' = LoadedPlan(made)
    /\ phase' = "start"
    /\ UNCHANGED <<impl, linkOK, fs, log, pre, cur, restored, calls, disk0,
                   dryRun, confirm, todo, mediumAns, highAns, asked, bkdir,
                   given, made, saved, ceiling, runs>>

SpecChain == InitChain /\ [][Analyze \/ LoadPlan \/ NextExecCC]_vars

Approved == \A k \in 1..Len(asked) : asked[k].answer = "yes"

\* C38: a live run in which every confirmation was given, on the built and
\* resolved plan with MOVE v/x -> w/x and MOVE w/x -> vx, ends with vx
\* holding what w/x held and w/x holding what v/x held, whatever the risk
\* levels of the two moves.
C38_MoveChainEndToEnd ==
    (phase = "done" /\ ~dryRun /\ Approved) =>
        /\ Read(fs, Proj(PathStr(SiblingV))) = Content0(PathStr(UnderW))
        /\ Read(fs, Proj(PathStr(UnderW))) = Content0(PathStr(UnderV))


\* C39: in a live execute, a MOVE whose destination holds another file
\* than its source leaves the destination with the content it had.
C39_DestinationKept ==
    [][(/\ phase = "exec" /\ cur.stage = "snapshotted"
        /\ cur.act.action_type = "MOVE"
        /\ cur.act.destination \in RelPaths
        /\ Exists(fs, Proj(cur.act.destination))
        /\ fs.names[Proj(cur.act.destination)] # fs.names[Proj(cur.act.source)])
       => Read(fs', Proj(cur.act.destination)) = Read(fs, Proj(cur.act.destination))]_vars


(***************************************************************************)
(* build_plan followed by resolve, on whatever the producers may return    *)
(***************************************************************************)
InitPipeline ==
    /\ impl = "claude"
    /\ phase = "producers"
    /\ \E n \in 0..MaxIn : \E kinds \in [1..n -> ProducerKinds] :
          given \in ResultsOf(Objects(kinds))
    /\ made = <<>>
    /\ ceiling = "HIGH" /\ runs = <<>>
    /\ NoDisk

SpecPipeline == InitPipeline /\ [][Analyze]_vars

Mutating(a) == a.action_type \in {"DELETE", "MOVE"}

\* C40: in the plan build_plan and resolve produce, no source is the source
\* of two DELETE-or-MOVE actions, so the backup paths of the mutating
\* actions are pairwise different.
C40_OneMutatingActionPerSource ==
    phase = "saved" =>
        \A j \in 1..Len(made) : \A k \in 1..Len(made) :
            (j # k /\ Mutating(made[j]) /\ Mutating(made[k])) =>
                /\ made[j].source # made[k].source
                /\ backup_path_for(PathStr(made[j].source))
                      # backup_path_for(PathStr(made[k].source))

\* the producers returned a DELETE and a MOVE of v/x and a DELETE of vx;
\* the plan keeps the MOVE of v/x and the DELETE of vx
C40_Witness ==
    /\ phase = "saved"
    /\ \E r \in 1..Len(given) : \E k \in 1..Len(given[r]) :
          given[r][k].action_type = "DELETE" /\ given[r][k].source = UnderV
    /\ Len(made) = 2
    /\ \E k \in 1..2 : made[k].action_type = "MOVE" /\ made[k].source = UnderV
    /\ \E k \in 1..2 : made[k].action_type = "DELETE" /\ made[k].source = SiblingV

====
